---- MODULE Spec2Model ----
(***************************************************************************)
(* State-machine model of the m7_bottomfinder signal pipeline:             *)
(*   alert_engine.py  (AlertEngine.decide, the per-key alert records),     *)
(*   ai_layer.py      (AIUsageLimiter, AIInterpreter.maybe_call),          *)
(*   data_layer.py    (DataCache, DataLayer.merge_incremental,             *)
(*                     fill_missing, update_cache).                        *)
(*                                                                         *)
(* Time.  A datetime is a record [wall, off, aware]: the wall-clock        *)
(* reading, the UTC offset of its tzinfo and whether it carries a tzinfo.  *)
(* Readings and offsets are counted in ticks, TicksPerMinute ticks to the  *)
(* minute; Python's datetimes resolve microseconds, the model resolves     *)
(* ticks, and every rounding the code does to its resolution is done here  *)
(* to the tick.                                                            *)
(***************************************************************************)
EXTENDS Integers, Sequences, FiniteSets, TLC

\* ------------------------------------------------------------------ bounds
TicksPerMinute == 2        \* resolution of the model's clock
MaxNow == 2                \* latest instant (in ticks) an alert evaluation is made at
MaxDay == 1                \* interpreter calls are made on the UTC days 0..MaxDay
MaxPerSymbol == 2          \* AIUsageLimiter(per_symbol=...) ranges over 1..MaxPerSymbol
MaxGlobalDaily == 2        \* AIUsageLimiter(global_daily=...) ranges over 1..MaxGlobalDaily
MaxInvocations == 2        \* provider.generate is invoked at most this often in a run
MaxConsumed == 3           \* AIUsageLimiter.consume is called at most this often in a run
MaxStamp == 2              \* fetched bars are stamped at the minutes 0..MaxStamp
MaxIncoming == 2           \* a fetch brings at most this many bars
MaxMergeBars == 3          \* merge_incremental is tried on at most this many bars in all
MaxFillTick == 6           \* fill_missing is tried on bars stamped at the ticks 0..MaxFillTick
MaxFillBars == 3           \* fill_missing is tried on at most this many bars
MaxCycles == 2             \* run_cycle is called at most this often in a run
MaxBacktestBars == 3       \* the backtest is run on at most this many bars
MaxSeries == 6             \* divergence is looked for in series of at most this many points

\* ------------------------------------------------------------- vocabulary
None == -1                 \* Python's None in an int | None field
MinutesPerDay == 1440      \* the calendar day datetime.date() cuts instants into
KstMinutes == 540          \* UTC offset of ZoneInfo("Asia/Seoul")

BULLISH == "bullish"
BEARISH == "bearish"
NEUTRAL == "neutral"
SignalDirection == {BULLISH, BEARISH, NEUTRAL}

SEND == "send"
SEND_STRENGTHENED == "send_strengthened"
SUPPRESS_NO_SIGNAL == "suppress_no_signal"
SUPPRESS_COOLDOWN == "suppress_cooldown"
SUPPRESS_DUPLICATE == "suppress_duplicate"

Symbols == {"AAPL", "MSFT"}

VARIABLES
    \* AlertEngine
    cooldown_minutes,      \* self.cooldown_minutes
    strengthened_delta,    \* self.strengthened_delta
    last,                  \* self._last : (symbol, direction) -> AlertRecord
    alert_call,            \* arguments of the latest decide call (history)
    decision,              \* the AlertDecision the latest decide call returned
    notified,              \* (symbol, direction) -> latest decision that said to send (history)

    \* AIUsageLimiter, AIInterpreter
    per_symbol,            \* limiter.per_symbol
    global_daily,          \* limiter.global_daily
    sym,                   \* limiter._sym : (symbol, day) -> calls consumed
    global,                \* limiter._global : day -> calls consumed
    ai_call,               \* arguments of the latest maybe_call (history)
    ai,                    \* what the latest maybe_call returned, or that it raised
    generated,             \* (symbol, day) -> invocations of provider.generate (history)

    \* DataCache, DataLayer
    cache,                 \* the cache files: (symbol, timeframe) -> list of bar dicts
    data_out,              \* outcome of the latest update_cache (history)
    max_gap,               \* RuntimeConfig.max_gap_minutes, passed to update_cache
    merge,                 \* a merge_incremental call: its arguments and its result
    fill,                  \* a fill_missing call: its arguments and its result

    \* ScannerRuntime
    cycles,                \* run_cycle calls begun (history)
    recovered,             \* what the fetcher did, what fetch_with_fallback returned, the
                           \* bars given to the engine, max_gap_minutes of each key's update
    cycle,                 \* the ScanCycleResult of the latest run_cycle, or that it raised
    messages,              \* messages the notifier has received
    notifier,              \* the sends of the cycles and the latest message (history)
    metrics,               \* the RuntimeMetrics counters

    \* components run on their own
    backtest,               \* a BacktestSimulator.run call: its arguments and what it returned
    detect,                 \* a DivergenceDetector.detect call: its arguments and the signal returned
    engine,                 \* an IndicatorEngine.run call: what the plug-ins gave and what run returned
    cache_call,             \* DataCache.save and load calls made on their own (history)
    limiter_call           \* the latest AIUsageLimiter call made directly (history)

alertVars == <<cooldown_minutes, strengthened_delta, last, alert_call, decision, notified>>
aiVars == <<per_symbol, global_daily, sym, global, ai_call, ai, generated>>
dataVars == <<cache, data_out, max_gap>>
pureVars == <<merge, fill>>
runVars == <<cycles, recovered, cycle, messages, notifier, metrics>>
toolVars == <<backtest, detect, engine, cache_call, limiter_call>>
vars == <<alertVars, aiVars, dataVars, pureVars, runVars, toolVars>>

\* ---------------------------------------------------------------- datetime
Max(a, b) == IF a >= b THEN a ELSE b

Utc(t) == [wall |-> t, off |-> 0, aware |-> TRUE]
Naive(t) == [wall |-> t, off |-> 0, aware |-> FALSE]
Zoned(t, o) == [wall |-> t + o, off |-> o, aware |-> TRUE]  \* instant t read in zone o

\* dt.replace(tzinfo=UTC) for a naive datetime, dt.astimezone(UTC) otherwise
normalize_timestamp(dt) ==
    IF ~dt.aware THEN [wall |-> dt.wall, off |-> 0, aware |-> TRUE]
    ELSE [wall |-> dt.wall - dt.off, off |-> 0, aware |-> TRUE]

\* datetime.date() of a normalized datetime, as a day number
Date(dt) == dt.wall \div (MinutesPerDay * TicksPerMinute)

\* the instant of an aware datetime, in ticks: what ==, < and - go by
Instant(dt) == dt.wall - dt.off

\* a - b for two aware datetimes, in ticks
Elapsed(a, b) == Instant(a) - Instant(b)

\* timedelta(minutes=m), in ticks
Minutes(m) == m * TicksPerMinute

\* ------------------------------------------------------- indicator engine
\* The engine the alert evaluations are fed from: two plug-ins of the
\* indicator library with their declared weights, and thresholds low enough
\* for both branches of every flag to occur.
Indicators == << [name |-> "wvf_spike", weight |-> 3], [name |-> "mfi", weight |-> 1] >>
EngineConfig ==
    [score_threshold |-> 2, ai_call_threshold |-> 3, min_s_hits_for_ai |-> 1,
     s_tier_names |-> {"wvf_spike"}]

\* What BaseIndicator.evaluate lets through for an indicator: the name is
\* its own, a neutral signal has score 0, the score is within 0..weight.
Evaluations(ind) ==
    { [indicator |-> ind.name, signal |-> s, score |-> n] :
        s \in SignalDirection, n \in 0..ind.weight } \
    { [indicator |-> ind.name, signal |-> NEUTRAL, score |-> n] : n \in 1..ind.weight }

AllResultLists ==
    { <<a, b>> : a \in Evaluations(Indicators[1]), b \in Evaluations(Indicators[2]) }

\* The result lists the evaluations are drawn from, as <<signal, score>> of
\* wvf_spike and of mfi: a bullish list, the same signature with a higher
\* score, the same score with another signature, a bullish list below the
\* alert threshold, a tie (neutral) above it, and a bearish list.
Cases ==
    { <<BULLISH, 2, NEUTRAL, 0>>, <<BULLISH, 3, NEUTRAL, 0>>, <<BULLISH, 2, BULLISH, 1>>,
      <<BULLISH, 1, NEUTRAL, 0>>, <<BULLISH, 2, BEARISH, 1>>, <<BEARISH, 2, NEUTRAL, 0>> }

ResultLists ==
    { rs \in AllResultLists :
        <<rs[1].signal, rs[1].score, rs[2].signal, rs[2].score>> \in Cases }

RECURSIVE SumScores(_)
SumScores(results) ==
    IF results = <<>> THEN 0 ELSE Head(results).score + SumScores(Tail(results))

\* sum(1 for r in results if r.signal == signal)
CountSignal(results, signal) ==
    Cardinality({i \in DOMAIN results : results[i].signal = signal})

\* sum(1 for r in results if r.indicator in self.s_tier_names and r.score > 0)
CountSTierNamed(results) ==
    Cardinality({i \in DOMAIN results : results[i].indicator \in EngineConfig.s_tier_names})
CountSTier(results) ==
    Cardinality({i \in DOMAIN results :
        results[i].indicator \in EngineConfig.s_tier_names /\ results[i].score > 0})

\* IndicatorEngine.run, from the list of results on
Summarize(results) ==
    LET bullish == CountSignal(results, BULLISH)
        bearish == CountSignal(results, BEARISH)
        neutral == Len(results) - bullish - bearish
        total_score == SumScores(results)
        strongest == IF bullish > bearish THEN BULLISH
                     ELSE IF bearish > bullish THEN BEARISH ELSE NEUTRAL
        s_hits == CountSTier(results)
    IN [total_score |-> total_score,
        strongest_signal |-> strongest,
        bullish_count |-> bullish,
        bearish_count |-> bearish,
        neutral_count |-> neutral,
        should_alert |-> total_score >= EngineConfig.score_threshold,
        should_call_ai |-> (total_score >= EngineConfig.ai_call_threshold
                            \/ s_hits >= EngineConfig.min_s_hits_for_ai),
        s_tier_hits |-> s_hits]

\* ------------------------------------------------------------ alert engine
\* Python's order on the indicator names that occur (str comparison)
NameRank(n) == CASE n = "mfi" -> 1 [] n = "wvf_spike" -> 2

RECURSIVE InsertName(_, _)
InsertName(n, sorted) ==
    IF sorted = <<>> THEN <<n>>
    ELSE IF NameRank(n) < NameRank(Head(sorted)) THEN <<n>> \o sorted
    ELSE <<Head(sorted)>> \o InsertName(n, Tail(sorted))

RECURSIVE SortedNames(_)
SortedNames(names) ==
    IF names = <<>> THEN <<>> ELSE InsertName(Head(names), SortedNames(Tail(names)))

\* AlertEngine._signature: the sorted names of the results that fired in the
\* direction (the "|"-joined string is read as the sequence it joins)
Signature(results, direction) ==
    LET fired == SelectSeq(results, LAMBDA r : r.signal = direction /\ r.score > 0)
    IN SortedNames([i \in DOMAIN fired |-> fired[i].indicator])

AlertDecision(action, should_send, reason, symbol, direction, score, remaining) ==
    [action |-> action, should_send |-> should_send, reason |-> reason,
     symbol |-> symbol, direction |-> direction, score |-> score,
     cooldown_remaining_minutes |-> remaining]

AlertRecordUnsigned(symbol, direction, score, timestamp, signature) ==
    [symbol |-> symbol, direction |-> direction, score |-> score,
     timestamp |-> timestamp, signature |-> <<>>]
AlertRecord(symbol, direction, score, timestamp, signature) ==
    [symbol |-> symbol, direction |-> direction, score |-> score,
     timestamp |-> timestamp, signature |-> signature]

\* self._last[key] = record
PutAlone(map, key, value) == [k \in {key} |-> value]
PutBySymbol(map, key, value) ==
    [k \in DOMAIN map \cup {key} |-> IF k[1] = key[1] THEN value ELSE map[k]]
Put(map, key, value) ==
    [k \in DOMAIN map \cup {key} |-> IF k = key THEN value ELSE map[k]]

\* not summary.should_alert or direction == SignalDirection.NEUTRAL
NoSignalBelowThreshold(summary) == ~summary.should_alert
NoSignal(summary) == ~summary.should_alert \/ summary.strongest_signal = NEUTRAL

\* elapsed < timedelta(minutes=self.cooldown_minutes)
InCooldownZeroExcluded(elapsed, cooldown) == 0 < elapsed /\ elapsed < Minutes(cooldown)
InCooldownNever(elapsed, cooldown) == FALSE
InCooldown(elapsed, cooldown) == elapsed < Minutes(cooldown)

\* summary.total_score >= prev.score + self.strengthened_delta
StrengthenedBeyond(score, prev_score, delta) == score > prev_score + delta
Strengthened(score, prev_score, delta) == score >= prev_score + delta

\* prev.signature == signature and prev.score == summary.total_score
IsDuplicateNever(prev, signature, score) == FALSE
IsDuplicateBySignature(prev, signature, score) == prev.signature = signature
IsDuplicate(prev, signature, score) == prev.signature = signature /\ prev.score = score

\* int((timedelta(minutes=self.cooldown_minutes) - elapsed).total_seconds() // 60)
RemainingFromNow(cooldown, elapsed) == Minutes(cooldown) \div TicksPerMinute
RemainingMinutes(cooldown, elapsed) == (Minutes(cooldown) - elapsed) \div TicksPerMinute

\* AlertEngine.decide: the decision returned and the record map it leaves
Decide(lst, cooldown, delta, symbol, summary, results, now) ==
    LET ts == normalize_timestamp(now)
        direction == summary.strongest_signal
        key == <<symbol, direction>>
        signature == Signature(results, direction)
        record == AlertRecord(symbol, direction, summary.total_score, ts, signature)
        accepted ==
            [decision |-> AlertDecision(SEND, TRUE, "accepted", symbol, direction,
                                        summary.total_score, None),
             last |-> Put(lst, key, record)]
    IN
    IF NoSignal(summary) THEN
        [decision |-> AlertDecision(SUPPRESS_NO_SIGNAL, FALSE, "threshold/direction unmet",
                                    symbol, direction, summary.total_score, None),
         last |-> lst]
    ELSE IF key \in DOMAIN lst THEN
        LET prev == lst[key]
            elapsed == Elapsed(ts, prev.timestamp)
            remaining == RemainingMinutes(cooldown, elapsed)
        IN
        IF InCooldown(elapsed, cooldown) THEN
            IF Strengthened(summary.total_score, prev.score, delta) THEN
                [decision |-> AlertDecision(SEND_STRENGTHENED, TRUE, "strengthened in cooldown",
                                            symbol, direction, summary.total_score, 0),
                 last |-> Put(lst, key, record)]
            ELSE
                [decision |-> AlertDecision(SUPPRESS_COOLDOWN, FALSE, "cooldown", symbol,
                                            direction, summary.total_score, Max(remaining, 0)),
                 last |-> lst]
        ELSE IF IsDuplicate(prev, signature, summary.total_score) THEN
            [decision |-> AlertDecision(SUPPRESS_DUPLICATE, FALSE, "duplicate", symbol,
                                        direction, summary.total_score, None),
             last |-> lst]
        ELSE accepted
    ELSE accepted

\* ---------------------------------------------------- alert engine: actions
CooldownChoices == {0, 1}      \* AlertEngine(cooldown_minutes=...), in minutes
DeltaChoices == {0, 1}         \* AlertEngine(strengthened_delta=...)

\* the `now` of an evaluation, as a UTC datetime: the first instant, the tick
\* after it, and the last instant, MaxNow
Nows == { Utc(t) : t \in {0, 1, MaxNow} }

NoCall ==
    [symbol |-> "", results |-> <<>>, now |-> Utc(0), fresh |-> FALSE, repeat |-> FALSE,
     first |-> FALSE, persisting |-> FALSE]
NoDecision == AlertDecision("", FALSE, "", "", NEUTRAL, 0, None)
EmptyMap == [k \in {} |-> None]

\* One call of decide(symbol, summary, results, now); successive calls are
\* made at non-decreasing instants.  alert_call keeps the arguments, whether
\* the key had no record when the call was made (fresh), and whether the call
\* repeats the arguments of the call before it, itself made on a fresh key
\* (repeat), whether it is the engine's first call (first) and whether every
\* call so far had its symbol and results (persisting).  notified keeps, per key, the instant and score of the latest
\* decision that said to send.
DecideCall(symbol, results, now) ==
    LET summary == Summarize(results)
        key == <<symbol, summary.strongest_signal>>
        out == Decide(last, cooldown_minutes, strengthened_delta, symbol, summary, results, now)
    IN /\ Elapsed(normalize_timestamp(now), normalize_timestamp(alert_call.now)) >= 0
       /\ alert_call' = [symbol |-> symbol, results |-> results, now |-> now,
                         fresh |-> key \notin DOMAIN last,
                         repeat |-> /\ alert_call.fresh
                                    /\ alert_call.symbol = symbol
                                    /\ alert_call.results = results
                                    /\ alert_call.now = now,
                         first |-> alert_call = NoCall,
                         persisting |-> \/ alert_call = NoCall
                                        \/ /\ alert_call.persisting
                                           /\ alert_call.symbol = symbol
                                           /\ alert_call.results = results]
       /\ decision' = out.decision
       /\ last' = out.last
       /\ notified' = IF out.decision.should_send
                       THEN Put(notified, key, [at |-> normalize_timestamp(now),
                                                score |-> summary.total_score])
                       ELSE notified
       /\ UNCHANGED <<cooldown_minutes, strengthened_delta>>

AlertNext == \E symbol \in Symbols, results \in ResultLists, now \in Nows :
                DecideCall(symbol, results, now) /\ UNCHANGED <<aiVars, dataVars, pureVars, runVars, toolVars>>

\* -------------------------------------------------------------- AI layer
\* dict.get(key, 0)
Get(map, key) == IF key \in DOMAIN map THEN map[key] ELSE 0

\* AIUsageLimiter.allow: <<allowed, reason>>
AllowEver(symc, globc, per_sym, glob_daily, symbol, now) ==
    IF \E k \in DOMAIN symc : k[1] = symbol /\ symc[k] >= per_sym
    THEN <<FALSE, "symbol daily limit">>
    ELSE IF \E d \in DOMAIN globc : globc[d] >= glob_daily
    THEN <<FALSE, "global daily limit">>
    ELSE <<TRUE, "ok">>
AllowGlobalFirst(symc, globc, per_sym, glob_daily, symbol, now) ==
    LET day == Date(normalize_timestamp(now))
    IN IF Get(globc, day) >= glob_daily THEN <<FALSE, "global daily limit">>
       ELSE IF Get(symc, <<symbol, day>>) >= per_sym THEN <<FALSE, "symbol daily limit">>
       ELSE <<TRUE, "ok">>
Allow(symc, globc, per_sym, glob_daily, symbol, now) ==
    LET day == Date(normalize_timestamp(now))
    IN IF Get(symc, <<symbol, day>>) >= per_sym THEN <<FALSE, "symbol daily limit">>
       ELSE IF Get(globc, day) >= glob_daily THEN <<FALSE, "global daily limit">>
       ELSE <<TRUE, "ok">>

\* AIUsageLimiter.consume: the two counter maps it leaves
ConsumeSymbolOnly(symc, globc, symbol, now) ==
    LET day == Date(normalize_timestamp(now))
    IN [sym |-> Put(symc, <<symbol, day>>, Get(symc, <<symbol, day>>) + 1),
        global |-> globc]
Consume(symc, globc, symbol, now) ==
    LET day == Date(normalize_timestamp(now))
    IN [sym |-> Put(symc, <<symbol, day>>, Get(symc, <<symbol, day>>) + 1),
        global |-> Put(globc, day, Get(globc, day) + 1)]

\* [...][:3]
FirstThree(risks) == SubSeq(risks, 1, IF Len(risks) < 3 THEN Len(risks) ELSE 3)

\* AIInvocation(called, reason, result); result is <<>> for None
AIInvocation(called, reason, result) ==
    [called |-> called, reason |-> reason, result |-> result, raised |-> FALSE]

\* maybe_call left by an exception: nothing is returned
Raised(error) == [called |-> FALSE, reason |-> error, result |-> <<>>, raised |-> TRUE]

\* A JSON number as json.loads gives it: an int, or a float with a fractional
\* part.  It is kept as its count of halves, so that n stands for n / 2.
Halves == 2
Whole(n) == n * Halves

\* int(x): x without its fractional part (toward zero)
int(x) == IF x >= 0 THEN x \div Halves ELSE -((-x) \div Halves)

\* What provider.generate answers: it raises (transport failure, or text
\* json.loads or int() rejects), or gives a payload with a confidence (a JSON
\* number: -1, 101, -0.5, 100, 58) and risks, with or without the regime and
\* summary keys.
Responses ==
    { [raises |-> TRUE, confidence |-> Whole(0), risks |-> <<>>, complete |-> FALSE,
       summary |-> ""],
      [raises |-> FALSE, confidence |-> Whole(-1), risks |-> <<>>, complete |-> TRUE,
       summary |-> "watch"],
      [raises |-> FALSE, confidence |-> Whole(101), risks |-> <<"r1", "r2">>,
       complete |-> TRUE, summary |-> "watch"],
      [raises |-> FALSE, confidence |-> Whole(0) - 1, risks |-> <<"r1", "r2", "r3", "r4">>,
       complete |-> TRUE, summary |-> "watch"],
      [raises |-> FALSE, confidence |-> Whole(100), risks |-> <<"r1", "r2">>,
       complete |-> TRUE, summary |-> "reversal"],
      [raises |-> FALSE, confidence |-> Whole(58), risks |-> <<>>, complete |-> FALSE,
       summary |-> ""] }

\* if not decision.should_send
Suppressed(should_send) == ~should_send

\* if not summary.should_call_ai
ThresholdUnmetNever(should_call_ai) == FALSE
ThresholdUnmet(should_call_ai) == ~should_call_ai

\* AIInterpreter.maybe_call: what it returns (or that it raised), the limiter
\* counters it leaves and whether provider.generate was invoked
MaybeCall(symc, globc, per_sym, glob_daily, symbol, should_send, should_call_ai, now, response) ==
    LET ts == normalize_timestamp(now)
        allowed == Allow(symc, globc, per_sym, glob_daily, symbol, ts)
        consumed == Consume(symc, globc, symbol, ts)
        kept == [sym |-> symc, global |-> globc]
        conf == int(response.confidence)
    IN
    IF Suppressed(should_send) THEN
        [ai |-> AIInvocation(FALSE, "alert suppressed", <<>>), limiter |-> kept,
         invoked |-> FALSE]
    ELSE IF ThresholdUnmet(should_call_ai) THEN
        [ai |-> AIInvocation(FALSE, "ai threshold unmet", <<>>), limiter |-> kept,
         invoked |-> FALSE]
    ELSE IF ~allowed[1] THEN
        [ai |-> AIInvocation(FALSE, allowed[2], <<>>), limiter |-> kept, invoked |-> FALSE]
    ELSE IF response.raises THEN
        [ai |-> Raised("provider"), limiter |-> kept, invoked |-> TRUE]
    ELSE IF conf < 0 \/ conf > 100 THEN
        [ai |-> Raised("confidence out of range"), limiter |-> kept, invoked |-> TRUE]
    ELSE IF ~response.complete THEN
        [ai |-> Raised("KeyError"), limiter |-> consumed, invoked |-> TRUE]
    ELSE
        [ai |-> AIInvocation(TRUE, "ok",
                    << [confidence |-> conf,
                        summary |-> response.summary,
                        risks |-> FirstThree(response.risks)] >>),
         limiter |-> consumed, invoked |-> TRUE]

\* ------------------------------------------------------- AI layer: actions
\* the `now` of a call: the first tick of each day as a UTC datetime, and the
\* last tick of the first day as a naive datetime and as read on a clock in
\* Seoul (where the next day has begun)
DayTicks == MinutesPerDay * TicksPerMinute
AINows ==
    { Utc(d * DayTicks) : d \in 0..MaxDay }
        \cup { Naive(DayTicks - 1), Zoned(DayTicks - 1, Minutes(KstMinutes)) }

\* provider.generate invocations so far, over all keys
RECURSIVE Total(_, _)
Total(map, keys) ==
    IF keys = {} THEN 0
    ELSE LET k == CHOOSE x \in keys : TRUE IN map[k] + Total(map, keys \ {k})

NoAICall ==
    [symbol |-> "", day |-> 0, should_send |-> FALSE, should_call_ai |-> FALSE,
     out_of_range |-> FALSE]

\* One call of maybe_call(symbol, timeframe, summary, results, decision, now)
\* with the provider answering `response` if it is asked.  ai_call keeps the
\* arguments and whether the provider was asked and gave a payload with a
\* confidence outside [0, 100].
MaybeCallCall(symbol, should_send, should_call_ai, now, response) ==
    LET day == Date(normalize_timestamp(now))
        out == MaybeCall(sym, global, per_symbol, global_daily, symbol, should_send,
                         should_call_ai, now, response)
    IN /\ out.invoked => Total(generated, DOMAIN generated) < MaxInvocations
       /\ ai_call' = [symbol |-> symbol, day |-> day, should_send |-> should_send,
                      should_call_ai |-> should_call_ai,
                      out_of_range |->
                          /\ out.invoked /\ ~response.raises
                          /\ (\/ response.confidence < Whole(0)
                              \/ response.confidence > Whole(100))]
       /\ ai' = out.ai
       /\ sym' = out.limiter.sym
       /\ global' = out.limiter.global
       /\ generated' = IF out.invoked
                        THEN Put(generated, <<symbol, day>>, Get(generated, <<symbol, day>>) + 1)
                        ELSE generated
       /\ UNCHANGED <<per_symbol, global_daily>>

AINext == \E symbol \in Symbols, should_send \in BOOLEAN, should_call_ai \in BOOLEAN,
             now \in AINows, response \in Responses :
             MaybeCallCall(symbol, should_send, should_call_ai, now, response)
                /\ UNCHANGED <<alertVars, dataVars, pureVars, runVars, toolVars>>

\* ----------------------------------------------- AIUsageLimiter on its own
NoLimiterCall == [op |-> "", symbol |-> "", day |-> 0, allowed |-> FALSE, reason |-> ""]

\* limiter.allow(symbol, now)
AllowCall(symbol, now) ==
    LET out == Allow(sym, global, per_symbol, global_daily, symbol, now)
    IN /\ limiter_call' = [op |-> "allow", symbol |-> symbol,
                           day |-> Date(normalize_timestamp(now)),
                           allowed |-> out[1], reason |-> out[2]]
       /\ UNCHANGED <<per_symbol, global_daily, sym, global, ai_call, ai, generated>>

\* limiter.consume(symbol, now)
ConsumeCall(symbol, now) ==
    LET out == Consume(sym, global, symbol, now)
    IN /\ Total(sym, DOMAIN sym) < MaxConsumed
       /\ sym' = out.sym
       /\ global' = out.global
       /\ limiter_call' = [op |-> "consume", symbol |-> symbol,
                           day |-> Date(normalize_timestamp(now)),
                           allowed |-> FALSE, reason |-> ""]
       /\ UNCHANGED <<per_symbol, global_daily, ai_call, ai, generated>>

LimiterNext ==
    \/ \E symbol \in Symbols, now \in AINows :
          AllowCall(symbol, now)
             /\ UNCHANGED <<alertVars, dataVars, pureVars, runVars, backtest, detect, engine,
                            cache_call>>
    \/ \E symbol \in Symbols, now \in AINows :
          ConsumeCall(symbol, now)
             /\ UNCHANGED <<alertVars, dataVars, pureVars, runVars, backtest, detect, engine,
                            cache_call>>

\* --------------------------------------------------------- AI layer: claims
\* invocations of provider.generate on a day, over all symbols
DayTotal(map, day) == Total(map, {k \in DOMAIN map : k[2] = day})

Days == 0..MaxDay
LimiterKeys == Symbols \X Days

\* the latest call passed the two flags and was stopped by a cap, as the
\* counters stood before it
DeniedBySymbolCap ==
    /\ ai_call'.should_send /\ ai_call'.should_call_ai
    /\ Get(sym, <<ai_call'.symbol, ai_call'.day>>) >= per_symbol
DeniedByGlobalCap ==
    /\ ai_call'.should_send /\ ai_call'.should_call_ai
    /\ Get(sym, <<ai_call'.symbol, ai_call'.day>>) < per_symbol
    /\ Get(global, ai_call'.day) >= global_daily

NothingConsumed == UNCHANGED <<sym, global, generated>>

\* C3 as stated: after any sequence of maybe_call invocations the number of
\* interpreter calls made for a (symbol, day) is at most per_symbol and the
\* number made on a day at most global_daily; a call denied by a cap returns
\* called = False with that cap's reason, invokes nothing and leaves the
\* counters unchanged.
C3_AsStated ==
    [][/\ \A key \in DOMAIN generated' : generated'[key] <= per_symbol
       /\ \A day \in Days : DayTotal(generated', day) <= global_daily
       /\ DeniedBySymbolCap =>
             ai' = AIInvocation(FALSE, "symbol daily limit", <<>>) /\ NothingConsumed
       /\ DeniedByGlobalCap =>
             ai' = AIInvocation(FALSE, "global daily limit", <<>>) /\ NothingConsumed]_vars

\* C4: maybe_call invokes the provider only if decision.should_send and
\* summary.should_call_ai hold and the limiter allows the call; a suppressed
\* decision returns called = False, "alert suppressed", and otherwise an unset
\* AI flag returns called = False, "ai threshold unmet"; in both cases nothing
\* is invoked and no counter changes.
C4_GateBeforeCall ==
    [][/\ generated' # generated =>
             /\ ai_call'.should_send /\ ai_call'.should_call_ai
             /\ Get(sym, <<ai_call'.symbol, ai_call'.day>>) < per_symbol
             /\ Get(global, ai_call'.day) < global_daily
       /\ ~ai_call'.should_send =>
             ai' = AIInvocation(FALSE, "alert suppressed", <<>>) /\ NothingConsumed
       /\ (ai_call'.should_send /\ ~ai_call'.should_call_ai) =>
             ai' = AIInvocation(FALSE, "ai threshold unmet", <<>>) /\ NothingConsumed]_vars

C4_Witness ==
    /\ ai_call.should_send /\ ~ai_call.should_call_ai
    /\ ai.reason = "ai threshold unmet"
    /\ Total(generated, DOMAIN generated) > 0

\* C5 as stated: after any sequence of maybe_call invocations the number of
\* provider.generate invocations for a (symbol, day) equals that key's
\* per-symbol counter, and the number for the day the global counter.
C5_AsStated ==
    /\ \A key \in LimiterKeys : Get(generated, key) = Get(sym, key)
    /\ \A day \in Days : DayTotal(generated, day) = Get(global, day)
\* ------------------------------------------------------------- data layer
Bar(timestamp, open, high, low, close, volume) ==
    [timestamp |-> timestamp, open |-> open, high |-> high, low |-> low,
     close |-> close, volume |-> volume]

\* limiter.allow(symbol, now) on the limiter as it stands, for a symbol that
\* has had per_symbol consumptions on the day of `now`
AtSymbolCap(symbol, now) ==
    Get(sym, <<symbol, Date(normalize_timestamp(now))>>) >= per_symbol
SymbolCapReported ==
    \A symbol \in Symbols, now \in AINows :
        AtSymbolCap(symbol, now) =>
            Allow(sym, global, per_symbol, global_daily, symbol, now)
                = <<FALSE, "symbol daily limit">>

\* C20: after per_symbol consumptions for a symbol on a day, allow for that
\* symbol on that day returns (False, "symbol daily limit") whatever the
\* global counter, the global cap reached or not; maybe_call, stopped by it,
\* returns called = False with that reason.
C20_SymbolCapFirst ==
    /\ []SymbolCapReported
    /\ [][DeniedBySymbolCap => ai' = AIInvocation(FALSE, "symbol daily limit", <<>>)]_vars

\* a call stopped at the symbol cap on a day whose global cap is reached too
C20_Witness ==
    /\ ai.reason = "symbol daily limit"
    /\ Get(sym, <<ai_call.symbol, ai_call.day>>) = per_symbol
    /\ Get(global, ai_call.day) >= global_daily

\* the UTC calendar day of `now`: of its instant, a naive datetime being read
\* as UTC
UtcDay(now) == (IF now.aware THEN Instant(now) ELSE now.wall) \div DayTicks

\* the counters with the keys of one day only
SymOfDay(day) == [k \in {x \in DOMAIN sym : x[2] = day} |-> sym[k]]
GlobalOfDay(day) == [d \in DOMAIN global \cap {day} |-> global[d]]

\* allow answers from the consumptions of the day of `now` alone, and with
\* none on that day it allows, whatever was consumed on other days
AllowByDay ==
    \A symbol \in Symbols, now \in AINows :
        /\ Allow(sym, global, per_symbol, global_daily, symbol, now)
             = Allow(SymOfDay(UtcDay(now)), GlobalOfDay(UtcDay(now)),
                     per_symbol, global_daily, symbol, now)
        /\ (Get(sym, <<symbol, UtcDay(now)>>) = 0 /\ Get(global, UtcDay(now)) = 0)
             => Allow(sym, global, per_symbol, global_daily, symbol, now) = <<TRUE, "ok">>

\* a maybe_call on one day leaves the counts of every other day as they were
OtherDaysKept ==
    /\ \A k \in DOMAIN sym : k \in DOMAIN sym' /\ (k[2] # ai_call'.day => sym'[k] = sym[k])
    /\ \A k \in DOMAIN sym' : k \notin DOMAIN sym => k[2] = ai_call'.day
    /\ \A d \in DOMAIN global : d \in DOMAIN global' /\ (d # ai_call'.day => global'[d] = global[d])
    /\ \A d \in DOMAIN global' : d \notin DOMAIN global => d = ai_call'.day

\* C21: allow(symbol, now) depends only on the consumptions of the UTC day of
\* `now`: a symbol or a global cap exhausted on day d is allowed again on day
\* d+1 with no reset, and consumptions on day d+1 leave day d's counts alone.
C21_DayRollover == []AllowByDay /\ [][OtherDaysKept]_vars

\* a call made and consumed on the day after the symbol's quota and the
\* global quota were used up
C21_Witness ==
    /\ ai.called
    /\ ai_call.day > 0
    /\ Get(sym, <<ai_call.symbol, ai_call.day - 1>>) >= per_symbol
    /\ Get(global, ai_call.day - 1) >= global_daily
    /\ Get(sym, <<ai_call.symbol, ai_call.day>>) = 1

\* C22 as stated: every AIInvocation returned with called = True carries a
\* confidence in [0, 100] and at most 3 risks, and a response whose confidence
\* is outside [0, 100] makes maybe_call fail instead of returning a result.
C22_AsStated ==
    /\ ai.called =>
          /\ ai.result[1].confidence \in 0..100
          /\ Len(ai.result[1].risks) <= 3
    /\ ai_call.out_of_range => ai.raised /\ ~ai.called

\* DataCache._normalize_bar (float() of a float is that float)
normalize_bar(bar) == [bar EXCEPT !.timestamp = normalize_timestamp(@)]

\* datetime.isoformat and datetime.fromisoformat: the text spells the wall
\* reading and the offset, if any
isoformat(dt) == <<dt.wall, dt.off, dt.aware>>
fromisoformat(text) == [wall |-> text[1], off |-> text[2], aware |-> text[3]]

\* Bar.to_dict, Bar.from_dict
to_dict(bar) == [bar EXCEPT !.timestamp = isoformat(@)]
from_dict(payload) ==
    [payload EXCEPT !.timestamp = normalize_timestamp(fromisoformat(@))]

\* sorted(bars, key=lambda x: x.timestamp): stable
RECURSIVE InsertBar(_, _)
InsertBar(bar, sorted) ==
    IF sorted = <<>> THEN <<bar>>
    ELSE IF Instant(bar.timestamp) <= Instant(Head(sorted).timestamp) THEN <<bar>> \o sorted
    ELSE <<Head(sorted)>> \o InsertBar(bar, Tail(sorted))

RECURSIVE SortBars(_)
SortBars(bars) ==
    IF bars = <<>> THEN <<>> ELSE InsertBar(Head(bars), SortBars(Tail(bars)))

NormalizeAll(bars) == [i \in DOMAIN bars |-> normalize_bar(bars[i])]

\* DataCache.load: [] when the file does not exist
Load(files, symbol, timeframe) ==
    IF <<symbol, timeframe>> \in DOMAIN files
    THEN LET stored == files[<<symbol, timeframe>>]
         IN [i \in DOMAIN stored |-> from_dict(stored[i])]
    ELSE <<>>

\* DataCache.save: the file written (it replaces the one there) and the metadata
SaveAppending(files, symbol, timeframe, bars) ==
    LET normalized == SortBars(NormalizeAll(bars))
        before == IF <<symbol, timeframe>> \in DOMAIN files
                  THEN files[<<symbol, timeframe>>] ELSE <<>>
    IN [files |-> Put(files, <<symbol, timeframe>>,
                      before \o [i \in DOMAIN normalized |-> to_dict(normalized[i])]),
        bar_count |-> Len(normalized)]
SaveUnsorted(files, symbol, timeframe, bars) ==
    LET normalized == NormalizeAll(bars)
    IN [files |-> Put(files, <<symbol, timeframe>>,
                      [i \in DOMAIN normalized |-> to_dict(normalized[i])]),
        bar_count |-> Len(normalized)]
Save(files, symbol, timeframe, bars) ==
    LET normalized == SortBars(NormalizeAll(bars))
    IN [files |-> Put(files, <<symbol, timeframe>>,
                      [i \in DOMAIN normalized |-> to_dict(normalized[i])]),
        bar_count |-> Len(normalized)]

\* DataLayer.timeframe_to_minutes; a timeframe "<n><suffix>" is [n, suffix],
\* and Unsupported stands for the ValueError
Unsupported == -1
timeframe_to_minutes(timeframe) ==
    IF timeframe.suffix = "m" THEN timeframe.n
    ELSE IF timeframe.suffix = "h" THEN timeframe.n * 60
    ELSE IF timeframe.suffix = "d" THEN timeframe.n * 60 * 24
    ELSE Unsupported

\* merged[normalized.timestamp] = normalized, for each bar in turn
RECURSIVE MergeInto(_, _)
MergeInto(merged, bars) ==
    IF bars = <<>> THEN merged
    ELSE LET normalized == normalize_bar(Head(bars))
         IN MergeInto(Put(merged, normalized.timestamp, normalized), Tail(bars))

\* sorted(merged.keys())
RECURSIVE SortedKeys(_)
SortedKeys(keys) ==
    IF keys = {} THEN <<>>
    ELSE LET first == CHOOSE k \in keys : \A other \in keys : Instant(k) <= Instant(other)
         IN <<first>> \o SortedKeys(keys \ {first})

\* DataLayer.merge_incremental
MergeKeepingAll(existing, incoming) == SortBars(NormalizeAll(existing \o incoming))
MergeExistingOnTop(existing, incoming) ==
    LET merged == MergeInto(MergeInto(EmptyMap, incoming), existing)
        keys == SortedKeys(DOMAIN merged)
    IN [i \in DOMAIN keys |-> merged[keys[i]]]
merge_incremental(existing, incoming) ==
    LET merged == MergeInto(MergeInto(EmptyMap, existing), incoming)
        keys == SortedKeys(DOMAIN merged)
    IN [i \in DOMAIN keys |-> merged[keys[i]]]

\* round(n / d) to the nearest integer, halves to the even one: how
\* timedelta * float rounds to the resolution
RoundHalfEven(n, d) ==
    LET q == n \div d
        r == n % d
    IN IF 2 * r < d THEN q
       ELSE IF 2 * r > d THEN q + 1
       ELSE IF q % 2 = 0 THEN q ELSE q + 1

\* int((current.timestamp - prev.timestamp).total_seconds() // 60)
GapMinutes(prev, current) == Elapsed(current.timestamp, prev.timestamp) \div TicksPerMinute

\* (gap_minutes // interval) - 1
MissingStepsOne(gap_minutes, interval) == 1
MissingSteps(gap_minutes, interval) == (gap_minutes \div interval) - 1

\* the bar synthesized at a step: flat at prev.close, volume 0
FillerAtCurrentClose(prev, current, step, missing_steps) ==
    LET delta == Elapsed(current.timestamp, prev.timestamp)
        ts == Utc(Instant(prev.timestamp) + RoundHalfEven(delta * step, missing_steps + 1))
    IN Bar(normalize_timestamp(ts), current.close, current.close, current.close,
           current.close, 0)
Filler(prev, current, step, missing_steps) ==
    LET delta == Elapsed(current.timestamp, prev.timestamp)
        ts == Utc(Instant(prev.timestamp) + RoundHalfEven(delta * step, missing_steps + 1))
    IN Bar(normalize_timestamp(ts), prev.close, prev.close, prev.close, prev.close, 0)

\* the bars appended between prev and current
Fillers(prev, current, interval, max_gap_minutes) ==
    LET gap_minutes == GapMinutes(prev, current)
    IN IF gap_minutes > interval /\ gap_minutes <= max_gap_minutes
       THEN LET missing_steps == MissingSteps(gap_minutes, interval)
            IN [step \in 1..missing_steps |-> Filler(prev, current, step, missing_steps)]
       ELSE <<>>

\* for current in ordered[1:]: ...; result[-1] is the bar appended last
RECURSIVE FillLoop(_, _, _, _)
FillLoop(result, rest, interval, max_gap_minutes) ==
    IF rest = <<>> THEN result
    ELSE LET prev == result[Len(result)]
             current == Head(rest)
         IN FillLoop(result \o Fillers(prev, current, interval, max_gap_minutes)
                        \o <<current>>,
                     Tail(rest), interval, max_gap_minutes)

\* DataLayer.fill_missing
fill_missing(bars, expected_interval_minutes, max_gap_minutes) ==
    IF bars = <<>> THEN <<>>
    ELSE LET ordered == SortBars(NormalizeAll(bars))
         IN IF Len(ordered) < 2 THEN ordered
            ELSE SortBars(FillLoop(<<ordered[1]>>, Tail(ordered),
                                   expected_interval_minutes, max_gap_minutes))

\* DataLayer.update_cache: the files it leaves, whether it raised, and the
\* bar_count of the metadata
UpdateCacheSavingFirst(files, symbol, timeframe, incoming_bars, max_gap_minutes) ==
    LET merged == merge_incremental(Load(files, symbol, timeframe), incoming_bars)
        interval == timeframe_to_minutes(timeframe)
        saved == Save(files, symbol, timeframe, merged)
    IN [files |-> saved.files, raised |-> interval = Unsupported,
        bar_count |-> IF interval = Unsupported THEN 0 ELSE saved.bar_count]
update_cache(files, symbol, timeframe, incoming_bars, max_gap_minutes) ==
    LET existing == Load(files, symbol, timeframe)
        merged == merge_incremental(existing, incoming_bars)
        interval == timeframe_to_minutes(timeframe)
        repaired == fill_missing(merged, interval, max_gap_minutes)
        saved == Save(files, symbol, timeframe, repaired)
    IN IF interval = Unsupported
       THEN [files |-> files, raised |-> TRUE, bar_count |-> 0]
       ELSE [files |-> saved.files, raised |-> FALSE, bar_count |-> saved.bar_count]

\* ------------------------------------------------------ data layer: inputs
\* the OHLCV a fetched bar carries: two that differ in every field
Shapes ==
    { [open |-> 10, high |-> 12, low |-> 9, close |-> 11, volume |-> 100],
      [open |-> 20, high |-> 22, low |-> 19, close |-> 21, volume |-> 200] }

\* how a list of bars is stamped: in UTC, on the clock in Seoul, or naive
Zones == {"UTC", "Asia/Seoul", "naive"}

StampIn(tick, zone) ==
    IF zone = "naive" THEN Naive(tick)
    ELSE IF zone = "Asia/Seoul" THEN Zoned(tick, Minutes(KstMinutes))
    ELSE Utc(tick)

Stamped(tick, zone, shape) ==
    Bar(StampIn(tick, zone), shape.open, shape.high, shape.low, shape.close, shape.volume)

\* sequences of at most n elements of S
SeqsUpTo(S, n) == UNION { [1..k -> S] : k \in 0..n }

\* lists of at most n bars stamped at the given ticks, all in one zone
Bars(picks, zone) == [i \in DOMAIN picks |-> Stamped(picks[i][1], zone, picks[i][2])]
BarLists(ticks, n, zones) ==
    { Bars(picks, zone) : picks \in SeqsUpTo(ticks \X Shapes, n), zone \in zones }

Timeframes == { [n |-> 1, suffix |-> "m"] }
\* the timeframes update_cache is called with: "1m", and "1w"
Weekly == [n |-> 1, suffix |-> "w"]
UpdatedTimeframes == Timeframes \cup {Weekly}
MaxGapChoices == {1, 2}       \* RuntimeConfig(max_gap_minutes=...)
DataSymbols == {"AAPL"}
FetchTicks == { Minutes(m) : m \in 0..MaxStamp }
\* what a fetch brings: bars stamped on the clock in Seoul, or naive
FetchZones == {"Asia/Seoul", "naive"}
Fetches == BarLists(FetchTicks, MaxIncoming, FetchZones)

StrictlyAscending(bars) ==
    \A i \in 1..(Len(bars) - 1) : Instant(bars[i].timestamp) < Instant(bars[i + 1].timestamp)

NoDataOut == [raised |-> FALSE, bar_count |-> 0, repeated |-> FALSE, unsupported |-> FALSE]

\* One call of update_cache(symbol, timeframe, incoming_bars, max_gap_minutes)
\* as run_cycle makes it.  data_out keeps whether it raised, the bar_count it
\* returned, whether the incoming bars repeated a timestamp, and whether the
\* suffix of the timeframe was another than m, h and d.
UpdateCacheWith(symbol, timeframe, incoming, max_gap_minutes) ==
    LET out == update_cache(cache, symbol, timeframe, incoming, max_gap_minutes)
    IN /\ cache' = out.files
       /\ data_out' = [raised |-> out.raised, bar_count |-> out.bar_count,
                       repeated |-> \E i, j \in DOMAIN incoming :
                                      i # j /\ Instant(normalize_timestamp(incoming[i].timestamp))
                                                 = Instant(normalize_timestamp(incoming[j].timestamp)),
                       unsupported |-> timeframe.suffix \notin {"m", "h", "d"}]
       /\ max_gap' = max_gap_minutes

\* update_cache on a layer whose callers pass the same max_gap_minutes
UpdateCacheCall(symbol, timeframe, incoming) ==
    UpdateCacheWith(symbol, timeframe, incoming, max_gap)

DataNext == \E symbol \in DataSymbols, timeframe \in UpdatedTimeframes, incoming \in Fetches :
               UpdateCacheCall(symbol, timeframe, incoming)
                  /\ UNCHANGED <<alertVars, aiVars, pureVars, runVars, toolVars>>

\* a merge_incremental call and a fill_missing call not yet made
NoMerge == [existing |-> <<>>, incoming |-> <<>>, done |-> FALSE, result |-> <<>>]
NoFill == [bars |-> <<>>, interval |-> 1, max_gap |-> 1, done |-> FALSE, result |-> <<>>]

MergeTicks == { Minutes(m) : m \in 0..(MaxMergeBars - 1) }

MergeCall ==
    /\ ~merge.done
    /\ merge' = [merge EXCEPT !.done = TRUE,
                              !.result = merge_incremental(merge.existing, merge.incoming)]
    /\ UNCHANGED <<alertVars, aiVars, dataVars, fill, runVars, toolVars>>

\* fill_missing(bars, expected_interval_minutes, max_gap_minutes)
FillParams == { <<1, 2>>, <<1, 3>>, <<2, 3>> }

FillCall ==
    /\ ~fill.done
    /\ fill' = [fill EXCEPT !.done = TRUE,
                            !.result = fill_missing(fill.bars, fill.interval, fill.max_gap)]
    /\ UNCHANGED <<alertVars, aiVars, dataVars, merge, runVars, toolVars>>

\* ---------------------------------------------------------------- runtime
\* What a fetcher does when called: it raises, or it returns a list of bars.
Fetched(raises, bars) == [raises |-> raises, bars |-> bars]

\* FetchRecovery.fetch_with_fallback: the fetched bars if the fetcher returned
\* some, the bars of the cache file if it raised or returned none
FallbackAlways(files, symbol, timeframe, fetched) ==
    [source |-> "cache", bars |-> Load(files, symbol, timeframe)]
fetch_with_fallback(files, symbol, timeframe, fetched) ==
    IF ~fetched.raises /\ fetched.bars # <<>>
    THEN [source |-> "provider", bars |-> fetched.bars]
    ELSE [source |-> "cache", bars |-> Load(files, symbol, timeframe)]

\* RuntimeMetrics.record_cycle
RecordCycleProviderOnly(counters, data_source, alert_sent, ai_called) ==
    [cycles_total |-> counters.cycles_total + 1,
     alerts_sent |-> counters.alerts_sent + (IF alert_sent THEN 1 ELSE 0),
     ai_calls |-> counters.ai_calls + (IF ai_called THEN 1 ELSE 0),
     provider_source_count |->
         counters.provider_source_count + (IF data_source = "provider" THEN 1 ELSE 0),
     cache_source_count |-> counters.cache_source_count]
record_cycle(counters, data_source, alert_sent, ai_called) ==
    [cycles_total |-> counters.cycles_total + 1,
     alerts_sent |-> counters.alerts_sent + (IF alert_sent THEN 1 ELSE 0),
     ai_calls |-> counters.ai_calls + (IF ai_called THEN 1 ELSE 0),
     provider_source_count |->
         counters.provider_source_count + (IF data_source = "provider" THEN 1 ELSE 0),
     cache_source_count |->
         counters.cache_source_count + (IF data_source = "cache" THEN 1 ELSE 0)]

NoMetrics ==
    [cycles_total |-> 0, alerts_sent |-> 0, ai_calls |-> 0,
     provider_source_count |-> 0, cache_source_count |-> 0]
NoRecovery ==
    [symbol |-> "", timeframe |-> [n |-> 0, suffix |-> ""], fetched |-> Fetched(FALSE, <<>>),
     source |-> "", bars |-> <<>>, cached_bars |-> <<>>, stored_with |-> EmptyMap]

\* ScanCycleResult, and a run_cycle that raised instead of returning one
ScanCycleResult(data_source, action, ai_called, ai_reason) ==
    [completed |-> TRUE, error |-> "", data_source |-> data_source, action |-> action,
     ai_called |-> ai_called, ai_reason |-> ai_reason]
CycleRaised(error) ==
    [completed |-> FALSE, error |-> error, data_source |-> "", action |-> "",
     ai_called |-> FALSE, ai_reason |-> ""]
NoCycle == CycleRaised("")

\* notifier.send(text) on a transport that takes the text or raises: the bare
\* transport, and SafeNotifier around it
TransportSend(transport_fails) == [raised |-> transport_fails]
SafeNotifierSend(transport_fails) == [raised |-> FALSE]

\* _build_alert_text without a price: the symbol and timeframe, the score and
\* direction, the strengthened mark, and the AI line if there is a summary
NoSummary == ""
build_alert_text(symbol, timeframe, summary, decided, ai_summary) ==
    [symbol |-> symbol, timeframe |-> timeframe, score |-> summary.total_score,
     direction |-> summary.strongest_signal,
     strengthened |-> decided.action = SEND_STRENGTHENED,
     ai_line |-> ai_summary # NoSummary, ai_summary |-> ai_summary]
NoMessage ==
    [symbol |-> "", timeframe |-> [n |-> 0, suffix |-> ""], score |-> 0,
     direction |-> NEUTRAL, strengthened |-> FALSE, ai_line |-> FALSE,
     ai_summary |-> NoSummary]

\* what a cycle leaves behind: the AlertEngine records, the limiter
\* counters, the stored bars and the metrics
Left(records, symc, globc, files, counters) ==
    [last |-> records, sym |-> symc, global |-> globc, cache |-> files,
     metrics |-> counters]

\* Per symbol, the sends the AlertEngine recorded in the cycles and the
\* messages the notifier received; of the latest cycle, whether it sent a
\* message, the message, whether the transport raised on it, and what the
\* cycle leaves with a transport that takes the message.
NoNotifier ==
    [recorded |-> EmptyMap, received |-> EmptyMap, sent |-> FALSE, message |-> NoMessage,
     failed |-> FALSE, delivering |-> Left(EmptyMap, EmptyMap, EmptyMap, EmptyMap, NoMetrics)]

\* what the runtime is run on: a fetcher that raises, one that returns no
\* bars, and fetchers that return one bar, or two bars two minutes apart
\* with other prices
RunBars ==
    { Bars(<< <<0, shape>> >>, "UTC") : shape \in {s \in Shapes : s.close = 11} }
        \cup { Bars(<< <<0, shape>>, <<Minutes(2), shape>> >>, "Asia/Seoul") :
                   shape \in {s \in Shapes : s.close = 21} }
RunFetched ==
    { Fetched(TRUE, <<>>), Fetched(FALSE, <<>>) } \cup { Fetched(FALSE, bars) : bars \in RunBars }

\* the result lists the plug-ins return on the stored bars: below the alert
\* threshold, at it, and above it
RunResults ==
    { rs \in ResultLists : rs[1].signal = BULLISH /\ rs[2].signal = NEUTRAL }

\* the interpreter raises, or answers in range with two risks
RunResponses ==
    { r \in Responses : r.raises \/ (r.complete /\ r.confidence = Whole(100)) }

RunNows == { Utc(0), Utc(Minutes(1)) }

\* One call of run_cycle(config, fetcher, now) with config.max_gap_minutes =
\* max_gap_minutes, on a runtime whose notifier
\* is SafeNotifier around a transport that takes the message or raises, and
\* whose plug-ins derive from BaseIndicator: they raise ValueError on an
\* empty list of bars and return `results` otherwise.  The cycle ends where
\* the first of its steps raises.
RunCycle(symbol, timeframe, max_gap_minutes, fetched, now, results, response, transport_fails) ==
    LET found == fetch_with_fallback(cache, symbol, timeframe, fetched)
        updated == update_cache(cache, symbol, timeframe, found.bars, max_gap_minutes)
        cached_bars == Load(updated.files, symbol, timeframe)
        summary == Summarize(results)
        decide == Decide(last, cooldown_minutes, strengthened_delta, symbol, summary,
                         results, now)
        decided == decide.decision
        maybe == MaybeCall(sym, global, per_symbol, global_daily, symbol,
                           decided.should_send, summary.should_call_ai, now, response)
        called == maybe.ai
        message == build_alert_text(symbol, timeframe, summary, decided,
                                    IF called.result # <<>> THEN called.result[1].summary
                                    ELSE NoSummary)
        send == SafeNotifierSend(transport_fails)
        recorded == IF decided.should_send
                    THEN Put(notifier.recorded, symbol, Get(notifier.recorded, symbol) + 1)
                    ELSE notifier.recorded
        counted == record_cycle(metrics, found.source, decided.should_send, called.called)
        nothing_sent == [NoNotifier EXCEPT !.recorded = notifier.recorded,
                                           !.received = notifier.received]
        asked == ~updated.raised /\ cached_bars # <<>> /\ maybe.invoked
        sends == /\ ~updated.raised /\ cached_bars # <<>>
                 /\ ~called.raised /\ decided.should_send
    IN /\ cycles < MaxCycles
       /\ transport_fails => sends      \* the transport acts when a message goes out
       /\ response.raises \/ asked     \* the provider answers when it is asked
       /\ cycles' = cycles + 1
       /\ recovered' = [symbol |-> symbol, timeframe |-> timeframe, fetched |-> fetched,
                        source |-> found.source, bars |-> found.bars,
                        cached_bars |-> IF updated.raised THEN <<>> ELSE cached_bars,
                        stored_with |->
                            IF updated.raised THEN recovered.stored_with
                            ELSE Put(recovered.stored_with, <<symbol, timeframe>>,
                                     max_gap_minutes)]
       /\ UpdateCacheWith(symbol, timeframe, found.bars, max_gap_minutes)
       /\ IF updated.raised
          THEN /\ cycle' = CycleRaised("Unsupported timeframe")
               /\ notifier' = nothing_sent
               /\ UNCHANGED <<alertVars, aiVars, messages, metrics>>
          ELSE IF cached_bars = <<>>
          THEN /\ cycle' = CycleRaised("requires bars")
               /\ notifier' = nothing_sent
               /\ UNCHANGED <<alertVars, aiVars, messages, metrics>>
          ELSE /\ DecideCall(symbol, results, now)
               /\ MaybeCallCall(symbol, decided.should_send, summary.should_call_ai, now,
                                response)
               /\ IF called.raised
                  THEN /\ cycle' = CycleRaised(called.reason)
                       /\ notifier' = [nothing_sent EXCEPT !.recorded = recorded]
                       /\ UNCHANGED <<messages, metrics>>
                  ELSE IF ~sends
                  THEN /\ notifier' = nothing_sent
                       /\ UNCHANGED messages
                       /\ metrics' = counted
                       /\ cycle' = ScanCycleResult(found.source, decided.action,
                                                   called.called, called.reason)
                  ELSE /\ messages' = messages + 1
                       /\ notifier' =
                             [recorded |-> recorded,
                              received |-> Put(notifier.received, symbol,
                                               Get(notifier.received, symbol) + 1),
                              sent |-> TRUE, message |-> message,
                              failed |-> transport_fails,
                              delivering |-> Left(decide.last, maybe.limiter.sym,
                                                  maybe.limiter.global, updated.files,
                                                  counted)]
                       /\ IF send.raised
                          THEN /\ cycle' = CycleRaised("transport")
                               /\ UNCHANGED metrics
                          ELSE /\ metrics' = counted
                               /\ cycle' = ScanCycleResult(found.source, decided.action,
                                                           called.called, called.reason)

RunNext == \E symbol \in DataSymbols, timeframe \in Timeframes, fetched \in RunFetched,
              now \in RunNows, results \in RunResults, response \in RunResponses,
              transport_fails \in BOOLEAN, max_gap_minutes \in MaxGapChoices :
              RunCycle(symbol, timeframe, max_gap_minutes, fetched, now, results, response,
                       transport_fails)
                 /\ UNCHANGED <<pureVars, toolVars>>

\* ---------------------------------------------------------------- backtest
\* A bar as the simulator reads it (close, low, high), with the results the
\* engine gives on the window that ends at the bar.
Replayed(results, close, low, high) ==
    [results |-> results, close |-> close, low |-> low, high |-> high]

\* last_score_by_direction.get(direction, -10**9)
NoScore == -1000000000

\* a float quotient a / b, kept exact
Ratio(a, b) == [num |-> a, den |-> b]

\* ((x - entry) / entry) * 100 if entry else 0.0; the prices in use make it whole
Pct(x, entry) == IF entry = 0 THEN 0 ELSE ((x - entry) * 100) \div entry

BacktestSignal(timestamp, index, score, direction, indicators) ==
    [timestamp |-> timestamp, index |-> index, score |-> score, direction |-> direction,
     indicators |-> indicators]

BacktestTradeResult(signal, entry, mdd, rebound, hit, ttr) ==
    [signal |-> signal, entry_price |-> entry, max_drawdown_pct |-> mdd,
     rebound_pct |-> rebound, hit_precision_target |-> hit, time_to_recovery_bars |-> ttr]

BacktestReportOfHits(count, precision, avg_rebound, worst_mdd, avg_duration, snr, avg_ttr) ==
    [signal_count |-> precision.num, precision |-> precision, avg_rebound_pct |-> avg_rebound,
     max_drawdown_pct |-> worst_mdd, avg_signal_duration_bars |-> avg_duration,
     signal_to_noise_ratio |-> snr, avg_time_to_recovery_bars |-> avg_ttr]
BacktestReport(count, precision, avg_rebound, worst_mdd, avg_duration, snr, avg_ttr) ==
    [signal_count |-> count, precision |-> precision, avg_rebound_pct |-> avg_rebound,
     max_drawdown_pct |-> worst_mdd, avg_signal_duration_bars |-> avg_duration,
     signal_to_noise_ratio |-> snr, avg_time_to_recovery_bars |-> avg_ttr]

\* in_cooldown = prev_idx is not None and (idx - prev_idx) < self.cooldown_bars
InCooldownBarsNever(idx, prev_idx, cooldown_bars) == FALSE
InCooldownBars(idx, prev_idx, cooldown_bars) ==
    prev_idx # None /\ (idx - prev_idx) < cooldown_bars

\* window = bars[: idx + 1], and a window that reaches one bar further
WindowAhead(bars, idx) == SubSeq(bars, 1, IF idx + 2 <= Len(bars) THEN idx + 2 ELSE Len(bars))
Window(bars, idx) == SubSeq(bars, 1, idx + 1)

\* self.engine.run(window): the results the engine gives on the window
EngineResults(window) == window[Len(window)].results

\* the loop of generate_signals from bar idx (0-based) on
RECURSIVE SignalLoop(_, _, _, _, _, _, _)
SignalLoop(bars, idx, cooldown_bars, strengthen_delta, signals, last_index, last_score) ==
    IF idx >= Len(bars) THEN signals
    ELSE
        LET results == EngineResults(Window(bars, idx))
            summary == Summarize(results)
            direction == summary.strongest_signal
            prev_idx == IF direction \in DOMAIN last_index THEN last_index[direction] ELSE None
            prev_score == IF direction \in DOMAIN last_score THEN last_score[direction]
                          ELSE NoScore
            in_cooldown == InCooldownBars(idx, prev_idx, cooldown_bars)
            strengthened == summary.total_score >= prev_score + strengthen_delta
            sig == BacktestSignal(Utc(Minutes(idx)), idx, summary.total_score, direction,
                                  Signature(results, direction))
        IN
        IF ~summary.should_alert \/ direction = NEUTRAL THEN
            SignalLoop(bars, idx + 1, cooldown_bars, strengthen_delta, signals, last_index,
                       last_score)
        ELSE IF in_cooldown /\ ~strengthened THEN
            SignalLoop(bars, idx + 1, cooldown_bars, strengthen_delta, signals, last_index,
                       last_score)
        ELSE
            SignalLoop(bars, idx + 1, cooldown_bars, strengthen_delta, Append(signals, sig),
                       Put(last_index, direction, idx),
                       Put(last_score, direction, summary.total_score))

\* BacktestSimulator.generate_signals
generate_signals(bars, warmup_bars, cooldown_bars, strengthen_delta) ==
    IF Len(bars) <= warmup_bars THEN <<>>
    ELSE SignalLoop(bars, warmup_bars, cooldown_bars, strengthen_delta, <<>>, EmptyMap,
                    EmptyMap)

\* min(xs), max(xs), sum(xs) of a list of numbers
MinSeq(xs) == CHOOSE m \in {xs[i] : i \in DOMAIN xs} : \A i \in DOMAIN xs : m <= xs[i]
MaxSeq(xs) == CHOOSE m \in {xs[i] : i \in DOMAIN xs} : \A i \in DOMAIN xs : m >= xs[i]
RECURSIVE SumSeq(_)
SumSeq(xs) == IF xs = <<>> THEN 0 ELSE Head(xs) + SumSeq(Tail(xs))

\* BacktestSimulator.evaluate_signal
HitAlways(rebound, target) == TRUE
Hit(rebound, target) == rebound >= target
evaluate_signal(signal, bars, lookahead_bars, precision_target_pct) ==
    LET entry == bars[signal.index + 1].close
        end == IF Len(bars) <= signal.index + lookahead_bars + 1 THEN Len(bars)
               ELSE signal.index + lookahead_bars + 1
        future == SubSeq(bars, signal.index + 2, end)
    IN
    IF future = <<>> THEN BacktestTradeResult(signal, entry, 0, 0, FALSE, None)
    ELSE
        LET min_low == MinSeq([i \in DOMAIN future |-> future[i].low])
            max_high == MaxSeq([i \in DOMAIN future |-> future[i].high])
            rebound == Pct(max_high, entry)
            recovered_at == {i \in DOMAIN future : future[i].high >= entry}
            ttr == IF recovered_at = {} THEN None
                   ELSE CHOOSE i \in recovered_at : \A j \in recovered_at : i <= j
        IN BacktestTradeResult(signal, entry, Pct(min_low, entry), rebound,
                               Hit(rebound, precision_target_pct), ttr)

\* BacktestSimulator._build_report
build_report(results, lookahead_bars) ==
    IF results = <<>> THEN
        BacktestReport(0, Ratio(0, 1), Ratio(0, 1), 0, Ratio(0, 1), Ratio(0, 1), None)
    ELSE
        LET hit_count == Len(SelectSeq(results, LAMBDA r : r.hit_precision_target))
            recovery_values == SelectSeq(results, LAMBDA r : r.time_to_recovery_bars # None)
            misses == Len(results) - hit_count
        IN BacktestReport(
               Len(results),
               Ratio(hit_count, Len(results)),
               Ratio(SumSeq([i \in DOMAIN results |-> results[i].rebound_pct]), Len(results)),
               MinSeq([i \in DOMAIN results |-> results[i].max_drawdown_pct]),
               Ratio(SumSeq([i \in DOMAIN results |->
                                IF results[i].time_to_recovery_bars \in {None, 0}
                                THEN lookahead_bars
                                ELSE results[i].time_to_recovery_bars]),
                     Len(results)),
               IF misses > 0 THEN Ratio(hit_count, misses) ELSE Ratio(hit_count, 1),
               IF recovery_values = <<>> THEN None
               ELSE Ratio(SumSeq([i \in DOMAIN recovery_values |->
                                     recovery_values[i].time_to_recovery_bars]),
                          Len(recovery_values)))

\* BacktestSimulator.run: signals, trade results, report
run(bars, config) ==
    LET signals == generate_signals(bars, config.warmup_bars, config.cooldown_bars,
                                    config.strengthen_delta)
        results == [i \in DOMAIN signals |->
                       evaluate_signal(signals[i], bars, config.lookahead_bars,
                                       config.precision_target_pct)]
    IN [signals |-> signals, results |-> results,
        report |-> build_report(results, config.lookahead_bars)]

\* The live engine fed the evaluations the backtest makes: AlertEngine, with a
\* cooldown of cooldown_bars bar intervals (a bar a minute), deciding for one
\* symbol on each bar from warmup_bars on; the bars at which it says to send.
RECURSIVE LiveLoop(_, _, _, _, _, _)
LiveLoop(bars, idx, cooldown_bars, strengthen_delta, sends, lst) ==
    IF idx >= Len(bars) THEN sends
    ELSE
        LET results == bars[idx + 1].results
            out == Decide(lst, cooldown_bars, strengthen_delta, "AAPL", Summarize(results),
                          results, Utc(Minutes(idx)))
        IN LiveLoop(bars, idx + 1, cooldown_bars, strengthen_delta,
                    IF out.decision.should_send THEN Append(sends, idx) ELSE sends,
                    out.last)

LiveSends(bars, config) ==
    IF Len(bars) <= config.warmup_bars THEN <<>>
    ELSE LiveLoop(bars, config.warmup_bars, config.cooldown_bars, config.strengthen_delta,
                  <<>>, EmptyMap)

\* ------------------------------------------------------- backtest: actions
\* the results of the engine on a window, as <<signal, score>> of wvf_spike
\* (mfi neutral)
ResultsOf(signal, score) ==
    << [indicator |-> Indicators[1].name, signal |-> signal, score |-> score],
       [indicator |-> Indicators[2].name, signal |-> NEUTRAL, score |-> 0] >>

\* The bars replayed: a bullish evaluation at the alert threshold, a stronger
\* one, one below the threshold and a bearish one, on a bar that closes at 10
\* under a high of 12, one that closes at 5 under a high of 6, and one at 0.
ReplayedBars ==
    { Replayed(ResultsOf(BULLISH, 2), 10, 9, 12), Replayed(ResultsOf(BULLISH, 2), 5, 4, 6),
      Replayed(ResultsOf(BULLISH, 3), 10, 9, 12), Replayed(ResultsOf(BULLISH, 3), 5, 4, 6),
      Replayed(ResultsOf(BULLISH, 1), 10, 9, 12), Replayed(ResultsOf(BULLISH, 1), 5, 4, 6),
      Replayed(ResultsOf(BEARISH, 2), 10, 9, 12), Replayed(ResultsOf(BULLISH, 2), 0, 0, 0) }

\* BacktestSimulator(engine, cooldown_bars, strengthen_delta,
\* precision_target_pct, lookahead_bars) and the warmup_bars of run
BacktestConfigs ==
    { [cooldown_bars |-> c, strengthen_delta |-> d, precision_target_pct |-> 3,
       lookahead_bars |-> l, warmup_bars |-> w] :
        c \in {0, 2}, d \in {0, 1}, l \in {1, 2}, w \in {0, 1} }

NoBacktest ==
    [bars |-> <<>>, config |-> [cooldown_bars |-> 0, strengthen_delta |-> 0,
                                precision_target_pct |-> 0, lookahead_bars |-> 0,
                                warmup_bars |-> 0],
     done |-> FALSE, signals |-> <<>>, results |-> <<>>,
     report |-> build_report(<<>>, 0), live |-> <<>>, prefixes |-> <<>>,
     alone |-> [d \in {BULLISH, BEARISH} |-> <<>>]]

\* the bars with every evaluation of another direction than `direction`
\* replaced by one that gives no signal
Only(bars, direction) ==
    [i \in DOMAIN bars |->
        IF Summarize(bars[i].results).strongest_signal = direction THEN bars[i]
        ELSE [bars[i] EXCEPT !.results = ResultsOf(NEUTRAL, 0)]]

\* run(bars, warmup_bars) on the simulator, and the live engine on the same
\* evaluations; beside it generate_signals on each bars[: k] and on the bars
\* of one direction alone
BacktestCall ==
    /\ ~backtest.done
    /\ LET out == run(backtest.bars, backtest.config)
       IN backtest' = [backtest EXCEPT !.done = TRUE,
                                       !.signals = out.signals,
                                       !.results = out.results,
                                       !.report = out.report,
                                       !.live = LiveSends(backtest.bars, backtest.config),
                                       !.prefixes =
                                           [k \in DOMAIN backtest.bars |->
                                               generate_signals(
                                                   SubSeq(backtest.bars, 1, k),
                                                   backtest.config.warmup_bars,
                                                   backtest.config.cooldown_bars,
                                                   backtest.config.strengthen_delta)],
                                       !.alone =
                                           [d \in {BULLISH, BEARISH} |->
                                               generate_signals(
                                                   Only(backtest.bars, d),
                                                   backtest.config.warmup_bars,
                                                   backtest.config.cooldown_bars,
                                                   backtest.config.strengthen_delta)]]
    /\ UNCHANGED <<alertVars, aiVars, dataVars, pureVars, runVars, detect, engine, cache_call, limiter_call>>

\* -------------------------------------------------------------- divergence
DIVERGENCE_NONE == "none"

Pivot(values, idx) == [index |-> idx, value |-> values[idx + 1]]

DivergenceSignal(found, kind, evidence, price, indicator) ==
    [found |-> found, kind |-> kind, evidence |-> evidence, price |-> price,
     indicator |-> indicator]

\* c < min(left) and c < min(right), c > max(left) and c > max(right), at the
\* 0-based index i
IsPivotOrEqual(values, mode, w, i) ==
    \A j \in (i - w)..(i + w) :
        j # i => IF mode = "low" THEN values[i + 1] <= values[j + 1]
                 ELSE values[i + 1] >= values[j + 1]
IsPivot(values, mode, w, i) ==
    \A j \in (i - w)..(i + w) :
        j # i => IF mode = "low" THEN values[i + 1] < values[j + 1]
                 ELSE values[i + 1] > values[j + 1]

\* DivergenceDetector._find_pivots: the loop from index i on
RECURSIVE PivotLoop(_, _, _, _, _)
PivotLoop(values, mode, w, i, pivots) ==
    IF i >= Len(values) - w THEN pivots
    ELSE PivotLoop(values, mode, w, i + 1,
                   IF IsPivot(values, mode, w, i) THEN Append(pivots, i) ELSE pivots)

find_pivots(values, mode, w) == PivotLoop(values, mode, w, w, <<>>)

\* DivergenceDetector.detect, for series of equal length
detect_divergence(prices, indicators, w) ==
    LET lows == find_pivots(prices, "low", w)
        highs == find_pivots(prices, "high", w)
        l1 == lows[Len(lows) - 1]
        l2 == lows[Len(lows)]
        h1 == highs[Len(highs) - 1]
        h2 == highs[Len(highs)]
    IN
    IF Len(prices) < 2 * w + 3 THEN
        DivergenceSignal(FALSE, DIVERGENCE_NONE, "not enough data", None, None)
    ELSE IF /\ Len(lows) >= 2
            /\ prices[l2 + 1] < prices[l1 + 1]
            /\ indicators[l2 + 1] > indicators[l1 + 1]
    THEN DivergenceSignal(TRUE, BULLISH, "price LL + indicator HL",
                          <<Pivot(prices, l1), Pivot(prices, l2)>>,
                          <<Pivot(indicators, l1), Pivot(indicators, l2)>>)
    ELSE IF /\ Len(highs) >= 2
            /\ prices[h2 + 1] > prices[h1 + 1]
            /\ indicators[h2 + 1] < indicators[h1 + 1]
    THEN DivergenceSignal(TRUE, BEARISH, "price HH + indicator LH",
                          <<Pivot(prices, h1), Pivot(prices, h2)>>,
                          <<Pivot(indicators, h1), Pivot(indicators, h2)>>)
    ELSE DivergenceSignal(FALSE, DIVERGENCE_NONE, "no divergence", None, None)

\* ----------------------------------------------------- divergence: actions
\* prices on four levels; an indicator that moves against the price, with
\* it, or not at all
PriceLevels == 1..4
IndicatorKinds == {"against", "with", "flat"}
IndicatorOf(prices, kind) ==
    [i \in DOMAIN prices |-> CASE kind = "against" -> 5 - prices[i]
                               [] kind = "with" -> prices[i]
                               [] kind = "flat" -> 1]
PivotWindows == {1, 2}

NoDetect ==
    [prices |-> <<>>, indicators |-> <<>>, w |-> 1, done |-> FALSE,
     signal |-> DivergenceSignal(FALSE, DIVERGENCE_NONE, "", None, None)]

\* the series of test_divergence_detector_bullish
TestedDetect ==
    [NoDetect EXCEPT !.prices = <<10, 8, 9, 7, 8, 9>>,
                     !.indicators = <<100, 80, 85, 90, 91, 92>>]

\* DivergenceDetector(pivot_window=w).detect(prices, indicators)
DetectCall ==
    /\ ~detect.done
    /\ detect' = [detect EXCEPT !.done = TRUE,
                                !.signal = detect_divergence(detect.prices,
                                                             detect.indicators, detect.w)]
    /\ UNCHANGED <<alertVars, aiVars, dataVars, pureVars, runVars, backtest, engine, cache_call, limiter_call>>

\* ----------------------------------------------- indicator engine: run
\* what a plug-in's _evaluate returns
IndicatorResult(indicator, signal, score) ==
    [indicator |-> indicator, signal |-> signal, score |-> score]

Evaluated(result) == [raised |-> FALSE, error |-> "", result |-> result]
EvaluateRaised(error) ==
    [raised |-> TRUE, error |-> error, result |-> IndicatorResult("", NEUTRAL, 0)]

\* BaseIndicator.evaluate(bars), the plug-in's _evaluate giving `result`
evaluate(ind, bars_given, result) ==
    IF ~bars_given THEN EvaluateRaised("requires bars")
    ELSE IF result.indicator # ind.name THEN EvaluateRaised("indicator mismatch")
    ELSE IF result.signal = NEUTRAL /\ result.score # 0
    THEN EvaluateRaised("neutral must have zero score")
    ELSE IF result.score < 0 \/ result.score > ind.weight
    THEN EvaluateRaised("score out of range")
    ELSE Evaluated(result)

\* IndicatorEngine.run(bars): the results and the summary, or the error of
\* the first indicator whose evaluate raises
engine_run(bars_given, plugged) ==
    LET evals == [i \in DOMAIN Indicators |-> evaluate(Indicators[i], bars_given, plugged[i])]
        failed == {i \in DOMAIN evals : evals[i].raised}
        results == [i \in DOMAIN evals |-> evals[i].result]
    IN IF failed # {}
       THEN [raised |-> TRUE,
             error |-> evals[CHOOSE i \in failed : \A j \in failed : i <= j].error,
             results |-> <<>>, summary |-> Summarize(<<>>)]
       ELSE [raised |-> FALSE, error |-> "", results |-> results,
             summary |-> Summarize(results)]

\* ------------------------------------------- indicator engine: run, actions
\* what the plug-in of an indicator may return: its own name or another, any
\* direction, a score from below 0 to above the weight
Plugged(ind) ==
    { IndicatorResult(n, s, k) :
        n \in {ind.name, "other"}, s \in SignalDirection, k \in (-1)..(ind.weight + 1) }

NoEngineRun ==
    [bars_given |-> FALSE, plugged |-> <<>>, done |-> FALSE, raised |-> FALSE,
     error |-> "", results |-> <<>>, summary |-> Summarize(<<>>)]

\* run(bars) on IndicatorEngine(Indicators, ...EngineConfig)
EngineRunCall ==
    /\ ~engine.done
    /\ LET out == engine_run(engine.bars_given, engine.plugged)
       IN engine' = [engine EXCEPT !.done = TRUE, !.raised = out.raised,
                                   !.error = out.error, !.results = out.results,
                                   !.summary = out.summary]
    /\ UNCHANGED <<alertVars, aiVars, dataVars, pureVars, runVars, backtest, detect, cache_call, limiter_call>>

\* ------------------------------------------------- DataCache: save and load
\* the keys in use: the one that is saved, and one that never is
SavedKey == <<"AAPL", [n |-> 1, suffix |-> "m"]>>
UnsavedKey == <<"MSFT", [n |-> 1, suffix |-> "m"]>>

\* Of the latest call its kind and key, the bar_count save returned or the
\* bars load returned; per key, the bars given to its latest save and the
\* bar_count that save returned.
NoCacheCall ==
    [op |-> "", key |-> SavedKey, bar_count |-> 0, loaded |-> <<>>, latest |-> EmptyMap,
     counts |-> EmptyMap]

\* DataCache.save(symbol, timeframe, bars)
CacheSaveCall(key, bars) ==
    LET out == Save(cache, key[1], key[2], bars)
    IN /\ cache' = out.files
       /\ cache_call' = [op |-> "save", key |-> key, bar_count |-> out.bar_count,
                         loaded |-> <<>>,
                         latest |-> Put(cache_call.latest, key, bars),
                         counts |-> Put(cache_call.counts, key, out.bar_count)]
       /\ UNCHANGED <<alertVars, aiVars, data_out, max_gap, pureVars, runVars, backtest,
                      detect, engine, limiter_call>>

\* DataCache.load(symbol, timeframe)
CacheLoadCall(key) ==
    /\ cache_call' = [cache_call EXCEPT !.op = "load", !.key = key, !.bar_count = 0,
                                        !.loaded = Load(cache, key[1], key[2])]
    /\ UNCHANGED <<alertVars, aiVars, dataVars, pureVars, runVars, backtest, detect, engine, limiter_call>>

\* bars at two instants in any order, with repeated timestamps, stamped in
\* UTC, on the clock in Seoul, or naive
CacheTicks == { 0, Minutes(1) }
CacheNext ==
    \/ \E n \in 0..MaxIncoming :
          \E picks \in [1..n -> CacheTicks \X Shapes], zone \in Zones :
             CacheSaveCall(SavedKey, Bars(picks, zone))
    \/ \E key \in {SavedKey, UnsavedKey} : CacheLoadCall(key)

\* ---------------------------------------------------------- specifications
\* Each specification runs one component from the state its constructor
\* leaves; the components it does not run stay as constructed.

\* AlertEngine(cooldown_minutes, strengthened_delta) under decide calls
AlertInit ==
    /\ cooldown_minutes \in CooldownChoices
    /\ strengthened_delta \in DeltaChoices
    /\ last = EmptyMap
    /\ alert_call = NoCall
    /\ decision = NoDecision
    /\ notified = EmptyMap
    /\ per_symbol = 1
    /\ global_daily = 1
    /\ sym = EmptyMap
    /\ global = EmptyMap
    /\ ai_call = NoAICall
    /\ ai = AIInvocation(FALSE, "", <<>>)
    /\ generated = EmptyMap
    /\ backtest = NoBacktest
    /\ detect = NoDetect
    /\ engine = NoEngineRun
    /\ cache_call = NoCacheCall
    /\ limiter_call = NoLimiterCall
    /\ cache = EmptyMap
    /\ data_out = NoDataOut
    /\ max_gap = 1
    /\ merge = NoMerge
    /\ fill = NoFill
    /\ cycles = 0
    /\ recovered = NoRecovery
    /\ cycle = NoCycle
    /\ messages = 0
    /\ notifier = NoNotifier
    /\ metrics = NoMetrics

SpecAlert == AlertInit /\ [][AlertNext]_vars

\* AIInterpreter(provider, AIUsageLimiter(per_symbol, global_daily)) under
\* maybe_call calls
AIInit ==
    /\ cooldown_minutes = 0
    /\ strengthened_delta = 0
    /\ last = EmptyMap
    /\ alert_call = NoCall
    /\ decision = NoDecision
    /\ notified = EmptyMap
    /\ per_symbol \in {1, MaxPerSymbol}
    /\ global_daily \in {1, MaxGlobalDaily}
    /\ sym = EmptyMap
    /\ global = EmptyMap
    /\ ai_call = NoAICall
    /\ ai = AIInvocation(FALSE, "", <<>>)
    /\ generated = EmptyMap
    /\ backtest = NoBacktest
    /\ detect = NoDetect
    /\ engine = NoEngineRun
    /\ cache_call = NoCacheCall
    /\ limiter_call = NoLimiterCall
    /\ cache = EmptyMap
    /\ data_out = NoDataOut
    /\ max_gap = 1
    /\ merge = NoMerge
    /\ fill = NoFill
    /\ cycles = 0
    /\ recovered = NoRecovery
    /\ cycle = NoCycle
    /\ messages = 0
    /\ notifier = NoNotifier
    /\ metrics = NoMetrics

SpecAI == AIInit /\ [][AINext]_vars

\* DataLayer(DataCache(root_dir)) on an empty directory, under update_cache calls
DataInit ==
    /\ cooldown_minutes = 0
    /\ strengthened_delta = 0
    /\ last = EmptyMap
    /\ alert_call = NoCall
    /\ decision = NoDecision
    /\ notified = EmptyMap
    /\ per_symbol = 1
    /\ global_daily = 1
    /\ sym = EmptyMap
    /\ global = EmptyMap
    /\ ai_call = NoAICall
    /\ ai = AIInvocation(FALSE, "", <<>>)
    /\ generated = EmptyMap
    /\ backtest = NoBacktest
    /\ detect = NoDetect
    /\ engine = NoEngineRun
    /\ cache_call = NoCacheCall
    /\ limiter_call = NoLimiterCall
    /\ cache = EmptyMap
    /\ data_out = NoDataOut
    /\ max_gap \in MaxGapChoices
    /\ merge = NoMerge
    /\ fill = NoFill
    /\ cycles = 0
    /\ recovered = NoRecovery
    /\ cycle = NoCycle
    /\ messages = 0
    /\ notifier = NoNotifier
    /\ metrics = NoMetrics

SpecData == DataInit /\ [][DataNext]_vars

\* one call of merge_incremental, on any two lists of bars
MergeInit ==
    /\ cooldown_minutes = 0
    /\ strengthened_delta = 0
    /\ last = EmptyMap
    /\ alert_call = NoCall
    /\ decision = NoDecision
    /\ notified = EmptyMap
    /\ per_symbol = 1
    /\ global_daily = 1
    /\ sym = EmptyMap
    /\ global = EmptyMap
    /\ ai_call = NoAICall
    /\ ai = AIInvocation(FALSE, "", <<>>)
    /\ generated = EmptyMap
    /\ backtest = NoBacktest
    /\ detect = NoDetect
    /\ engine = NoEngineRun
    /\ cache_call = NoCacheCall
    /\ limiter_call = NoLimiterCall
    /\ cache = EmptyMap
    /\ data_out = NoDataOut
    /\ max_gap = 1
    /\ \E ne \in 0..MaxMergeBars :
          \E ni \in 0..(MaxMergeBars - ne) :
             \E pe \in [1..ne -> MergeTicks \X Shapes], pi \in [1..ni -> MergeTicks \X Shapes],
                ze \in Zones, zi \in Zones :
                 merge = [existing |-> Bars(pe, ze), incoming |-> Bars(pi, zi),
                          done |-> FALSE, result |-> <<>>]
    /\ fill = NoFill
    /\ cycles = 0
    /\ recovered = NoRecovery
    /\ cycle = NoCycle
    /\ messages = 0
    /\ notifier = NoNotifier
    /\ metrics = NoMetrics

SpecMerge == MergeInit /\ [][MergeCall]_vars

\* one call of fill_missing, on any list of bars
FillInit ==
    /\ cooldown_minutes = 0
    /\ strengthened_delta = 0
    /\ last = EmptyMap
    /\ alert_call = NoCall
    /\ decision = NoDecision
    /\ notified = EmptyMap
    /\ per_symbol = 1
    /\ global_daily = 1
    /\ sym = EmptyMap
    /\ global = EmptyMap
    /\ ai_call = NoAICall
    /\ ai = AIInvocation(FALSE, "", <<>>)
    /\ generated = EmptyMap
    /\ backtest = NoBacktest
    /\ detect = NoDetect
    /\ engine = NoEngineRun
    /\ cache_call = NoCacheCall
    /\ limiter_call = NoLimiterCall
    /\ cache = EmptyMap
    /\ data_out = NoDataOut
    /\ max_gap = 1
    /\ merge = NoMerge
    /\ cycles = 0
    /\ recovered = NoRecovery
    /\ cycle = NoCycle
    /\ messages = 0
    /\ notifier = NoNotifier
    /\ metrics = NoMetrics
    /\ \E n \in 0..MaxFillBars :
          \E picks \in [1..n -> (0..MaxFillTick) \X Shapes], zone \in Zones,
             params \in FillParams :
              fill = [bars |-> Bars(picks, zone), interval |-> params[1],
                      max_gap |-> params[2], done |-> FALSE, result |-> <<>>]

SpecFill == FillInit /\ [][FillCall]_vars

\* ScannerRuntime over an empty cache directory, a fresh AlertEngine(1, 1),
\* AIUsageLimiter(1, 1) and fresh metrics, under run_cycle calls
RunInit ==
    /\ cooldown_minutes = 1
    /\ strengthened_delta = 1
    /\ last = EmptyMap
    /\ alert_call = NoCall
    /\ decision = NoDecision
    /\ notified = EmptyMap
    /\ per_symbol = 1
    /\ global_daily = 1
    /\ sym = EmptyMap
    /\ global = EmptyMap
    /\ ai_call = NoAICall
    /\ ai = AIInvocation(FALSE, "", <<>>)
    /\ generated = EmptyMap
    /\ backtest = NoBacktest
    /\ detect = NoDetect
    /\ engine = NoEngineRun
    /\ cache_call = NoCacheCall
    /\ limiter_call = NoLimiterCall
    /\ cache = EmptyMap
    /\ data_out = NoDataOut
    /\ max_gap = 2
    /\ merge = NoMerge
    /\ fill = NoFill
    /\ cycles = 0
    /\ recovered = NoRecovery
    /\ cycle = NoCycle
    /\ messages = 0
    /\ notifier = NoNotifier
    /\ metrics = NoMetrics

SpecRun == RunInit /\ [][RunNext]_vars

\* BacktestSimulator.run on a list of bars, beside the live engine
BacktestInit ==
    /\ cooldown_minutes = 0
    /\ strengthened_delta = 0
    /\ last = EmptyMap
    /\ alert_call = NoCall
    /\ decision = NoDecision
    /\ notified = EmptyMap
    /\ per_symbol = 1
    /\ global_daily = 1
    /\ sym = EmptyMap
    /\ global = EmptyMap
    /\ ai_call = NoAICall
    /\ ai = AIInvocation(FALSE, "", <<>>)
    /\ generated = EmptyMap
    /\ \E n \in 0..MaxBacktestBars :
          \E bars \in [1..n -> ReplayedBars], config \in BacktestConfigs :
              backtest = [NoBacktest EXCEPT !.bars = bars, !.config = config]
    /\ detect = NoDetect
    /\ engine = NoEngineRun
    /\ cache_call = NoCacheCall
    /\ limiter_call = NoLimiterCall
    /\ cache = EmptyMap
    /\ data_out = NoDataOut
    /\ max_gap = 1
    /\ merge = NoMerge
    /\ fill = NoFill
    /\ cycles = 0
    /\ recovered = NoRecovery
    /\ cycle = NoCycle
    /\ messages = 0
    /\ notifier = NoNotifier
    /\ metrics = NoMetrics

SpecBacktest == BacktestInit /\ [][BacktestCall]_vars

\* DivergenceDetector(pivot_window).detect on a price and an indicator series
DetectInit ==
    /\ cooldown_minutes = 0
    /\ strengthened_delta = 0
    /\ last = EmptyMap
    /\ alert_call = NoCall
    /\ decision = NoDecision
    /\ notified = EmptyMap
    /\ per_symbol = 1
    /\ global_daily = 1
    /\ sym = EmptyMap
    /\ global = EmptyMap
    /\ ai_call = NoAICall
    /\ ai = AIInvocation(FALSE, "", <<>>)
    /\ generated = EmptyMap
    /\ backtest = NoBacktest
    /\ \/ \E n \in 0..MaxSeries :
             \E prices \in [1..n -> PriceLevels], kind \in IndicatorKinds,
                w \in PivotWindows :
                 detect = [NoDetect EXCEPT !.prices = prices,
                                           !.indicators = IndicatorOf(prices, kind),
                                           !.w = w]
       \/ detect = TestedDetect
    /\ engine = NoEngineRun
    /\ cache_call = NoCacheCall
    /\ limiter_call = NoLimiterCall
    /\ cache = EmptyMap
    /\ data_out = NoDataOut
    /\ max_gap = 1
    /\ merge = NoMerge
    /\ fill = NoFill
    /\ cycles = 0
    /\ recovered = NoRecovery
    /\ cycle = NoCycle
    /\ messages = 0
    /\ notifier = NoNotifier
    /\ metrics = NoMetrics

SpecDetect == DetectInit /\ [][DetectCall]_vars

\* DataCache(root_dir) on an empty directory, under save and load calls
CacheInit ==
    /\ cooldown_minutes = 0
    /\ strengthened_delta = 0
    /\ last = EmptyMap
    /\ alert_call = NoCall
    /\ decision = NoDecision
    /\ notified = EmptyMap
    /\ per_symbol = 1
    /\ global_daily = 1
    /\ sym = EmptyMap
    /\ global = EmptyMap
    /\ ai_call = NoAICall
    /\ ai = AIInvocation(FALSE, "", <<>>)
    /\ generated = EmptyMap
    /\ backtest = NoBacktest
    /\ detect = NoDetect
    /\ engine = NoEngineRun
    /\ cache_call = NoCacheCall
    /\ limiter_call = NoLimiterCall
    /\ cache = EmptyMap
    /\ data_out = NoDataOut
    /\ max_gap = 1
    /\ merge = NoMerge
    /\ fill = NoFill
    /\ cycles = 0
    /\ recovered = NoRecovery
    /\ cycle = NoCycle
    /\ messages = 0
    /\ notifier = NoNotifier
    /\ metrics = NoMetrics

SpecCache == CacheInit /\ [][CacheNext]_vars

\* IndicatorEngine(indicators, thresholds).run on what the plug-ins return
EngineInit ==
    /\ cooldown_minutes = 0
    /\ strengthened_delta = 0
    /\ last = EmptyMap
    /\ alert_call = NoCall
    /\ decision = NoDecision
    /\ notified = EmptyMap
    /\ per_symbol = 1
    /\ global_daily = 1
    /\ sym = EmptyMap
    /\ global = EmptyMap
    /\ ai_call = NoAICall
    /\ ai = AIInvocation(FALSE, "", <<>>)
    /\ generated = EmptyMap
    /\ backtest = NoBacktest
    /\ detect = NoDetect
    /\ \E bars_given \in BOOLEAN, first \in Plugged(Indicators[1]),
          second \in Plugged(Indicators[2]) :
           engine = [NoEngineRun EXCEPT !.bars_given = bars_given,
                                        !.plugged = <<first, second>>]
    /\ cache_call = NoCacheCall
    /\ limiter_call = NoLimiterCall
    /\ cache = EmptyMap
    /\ data_out = NoDataOut
    /\ max_gap = 1
    /\ merge = NoMerge
    /\ fill = NoFill
    /\ cycles = 0
    /\ recovered = NoRecovery
    /\ cycle = NoCycle
    /\ messages = 0
    /\ notifier = NoNotifier
    /\ metrics = NoMetrics

SpecEngine == EngineInit /\ [][EngineRunCall]_vars

\* ----------------------------------------------------- alert engine: claims
AlertWorthy(results) ==
    Summarize(results).should_alert /\ Summarize(results).strongest_signal # NEUTRAL

\* the step is a decide call with the arguments of the call before it, which
\* was made with no record for the key and an alert-worthy summary
SecondOfTwo ==
    /\ alert_call.fresh
    /\ AlertWorthy(alert_call.results)
    /\ alert_call'.symbol = alert_call.symbol
    /\ alert_call'.results = alert_call.results
    /\ alert_call'.now = alert_call.now
    /\ alert_call' # alert_call

\* C1 as stated, for every cooldown_minutes >= 0 (read for alert-worthy
\* summaries): two decide calls in immediate succession with identical
\* arguments, on an engine with no record for the key, yield SEND and then
\* SUPPRESS_COOLDOWN or SEND_STRENGTHENED.
C1_AsStated ==
    [][SecondOfTwo =>
         /\ decision.action = SEND
         /\ decision'.action \in {SUPPRESS_COOLDOWN, SEND_STRENGTHENED}]_vars

\* C1 amended: two decide calls in immediate succession with identical
\* arguments and an alert-worthy summary, on an engine with no record for the
\* key, yield SEND and then, when cooldown_minutes > 0, SUPPRESS_COOLDOWN or
\* SEND_STRENGTHENED, and when cooldown_minutes = 0, SUPPRESS_DUPLICATE: never
\* SEND twice in a row.
C1_TwiceInSuccession ==
    [][SecondOfTwo =>
         /\ decision.action = SEND
         /\ decision'.action # SEND
         /\ cooldown_minutes > 0 =>
                decision'.action \in {SUPPRESS_COOLDOWN, SEND_STRENGTHENED}
         /\ cooldown_minutes = 0 => decision'.action = SUPPRESS_DUPLICATE]_vars

C1_Witness ==
    /\ alert_call.repeat
    /\ AlertWorthy(alert_call.results)
    /\ cooldown_minutes > 0
    /\ decision.action = SUPPRESS_COOLDOWN

\* C2: for each (symbol, direction), a decision that says to send, made when
\* an earlier one was made for the key, comes at least cooldown_minutes after
\* that one, unless it is SEND_STRENGTHENED with a score of at least the
\* earlier score plus strengthened_delta.
C2_CooldownBetweenSends ==
    [][\A key \in DOMAIN notified :
         (/\ notified' # notified
          /\ key = <<decision'.symbol, decision'.direction>>)
         => \/ Elapsed(notified'[key].at, notified[key].at) >= Minutes(cooldown_minutes)
            \/ /\ decision'.action = SEND_STRENGTHENED
               /\ decision'.score >= notified[key].score + strengthened_delta]_vars

C2_Witness ==
    /\ decision.action = SEND
    /\ ~alert_call.fresh
    /\ cooldown_minutes > 0
    /\ <<decision.symbol, decision.direction>> \in DOMAIN notified

\* What a decide call is made with, as the record it would write: the key,
\* score, normalized timestamp and signature of its arguments.
CallKey(call) == <<call.symbol, Summarize(call.results).strongest_signal>>
CallScore(call) == Summarize(call.results).total_score
CallStamp(call) == normalize_timestamp(call.now)
CallSignature(call) == Signature(call.results, Summarize(call.results).strongest_signal)
CallRecord(call) ==
    [symbol |-> call.symbol, direction |-> CallKey(call)[2], score |-> CallScore(call),
     timestamp |-> CallStamp(call), signature |-> CallSignature(call)]

\* the record map with the call's record written under the call's key, every
\* other key as it was
Overwritten(map, call) ==
    [k \in DOMAIN map \cup {CallKey(call)} |->
        IF k = CallKey(call) THEN CallRecord(call) ELSE map[k]]

\* the call finds a record for its key, made `elapsed` ticks before it
HasPrior(map, call) == AlertWorthy(call.results) /\ CallKey(call) \in DOMAIN map
SincePrior(map, call) == Elapsed(CallStamp(call), map[CallKey(call)].timestamp)

\* C14: a decide call whose summary has should_alert false or a neutral
\* strongest direction returns SUPPRESS_NO_SIGNAL with should_send false and
\* leaves the record map as it was, whatever it holds.
C14_NoSignal ==
    [][~AlertWorthy(alert_call'.results) =>
         /\ decision'.action = SUPPRESS_NO_SIGNAL
         /\ ~decision'.should_send
         /\ last' = last]_vars

C14_Witness ==
    /\ Summarize(alert_call.results).should_alert
    /\ Summarize(alert_call.results).strongest_signal = NEUTRAL
    /\ decision.action = SUPPRESS_NO_SIGNAL
    /\ \E k \in DOMAIN last : k[1] = alert_call.symbol

\* C15: the first evaluation of a key with an alert-worthy summary returns
\* SEND and creates the key's record with the score, the evaluation
\* timestamp and the signature, the records of other keys staying as they are.
C15_FirstEvaluation ==
    [][(AlertWorthy(alert_call'.results) /\ CallKey(alert_call') \notin DOMAIN last) =>
         /\ decision'.action = SEND
         /\ decision'.should_send
         /\ last' = Overwritten(last, alert_call')
         /\ \A k \in DOMAIN last : last'[k] = last[k]]_vars

C15_Witness ==
    /\ alert_call.fresh
    /\ decision.action = SEND
    /\ Cardinality(DOMAIN last) >= 2
    /\ last[CallKey(alert_call)] = CallRecord(alert_call)
    /\ CallSignature(alert_call) # <<>>

\* C16: with a record for the key, elapsed < cooldown and a score of at least
\* the record's plus strengthened_delta, decide returns SEND_STRENGTHENED
\* with should_send true and cooldown_remaining_minutes 0, and overwrites the
\* record with the call's score, signature and timestamp.
C16_Strengthened ==
    [][(/\ HasPrior(last, alert_call')
        /\ SincePrior(last, alert_call') < Minutes(cooldown_minutes)
        /\ CallScore(alert_call') >= last[CallKey(alert_call')].score + strengthened_delta) =>
         /\ decision'.action = SEND_STRENGTHENED
         /\ decision'.should_send
         /\ decision'.cooldown_remaining_minutes = 0
         /\ last' = Overwritten(last, alert_call')]_vars

\* a strengthened send made later than the send before it: the record now
\* carries the later instant, from which the cooldown is counted
C16_Witness ==
    /\ decision.action = SEND_STRENGTHENED
    /\ ~alert_call.fresh
    /\ Instant(alert_call.now) > 0
    /\ last[CallKey(alert_call)].timestamp = CallStamp(alert_call)

\* C17: with a record for the key, elapsed < cooldown and a score below the
\* record's plus strengthened_delta, decide returns SUPPRESS_COOLDOWN with
\* should_send false and cooldown_remaining_minutes the whole minutes (none
\* fewer than 0) in cooldown - elapsed, and leaves the record map as it was.
C17_Cooldown ==
    [][(/\ HasPrior(last, alert_call')
        /\ SincePrior(last, alert_call') < Minutes(cooldown_minutes)
        /\ CallScore(alert_call') < last[CallKey(alert_call')].score + strengthened_delta) =>
         /\ decision'.action = SUPPRESS_COOLDOWN
         /\ ~decision'.should_send
         /\ decision'.cooldown_remaining_minutes >= 0
         /\ Minutes(decision'.cooldown_remaining_minutes)
               <= Minutes(cooldown_minutes) - SincePrior(last, alert_call')
         /\ Minutes(cooldown_minutes) - SincePrior(last, alert_call')
               < Minutes(decision'.cooldown_remaining_minutes + 1)
         /\ last' = last]_vars

\* a call suppressed part of a minute into a cooldown
C17_Witness ==
    /\ decision.action = SUPPRESS_COOLDOWN
    /\ HasPrior(last, alert_call)
    /\ SincePrior(last, alert_call) > 0
    /\ decision.cooldown_remaining_minutes < cooldown_minutes

\* C18: with a record for the key and the cooldown elapsed, decide returns
\* SUPPRESS_DUPLICATE and leaves the map as it was exactly when the call's
\* signature and score both equal the record's; otherwise it returns SEND and
\* overwrites the record.
C18_AfterCooldown ==
    [][(/\ HasPrior(last, alert_call')
        /\ SincePrior(last, alert_call') >= Minutes(cooldown_minutes)) =>
         IF /\ last[CallKey(alert_call')].signature = CallSignature(alert_call')
            /\ last[CallKey(alert_call')].score = CallScore(alert_call')
         THEN /\ decision'.action = SUPPRESS_DUPLICATE
              /\ ~decision'.should_send
              /\ last' = last
         ELSE /\ decision'.action = SEND
              /\ decision'.should_send
              /\ last' = Overwritten(last, alert_call')]_vars

\* a duplicate suppressed once a cooldown of a minute has run out
C18_Witness ==
    /\ decision.action = SUPPRESS_DUPLICATE
    /\ cooldown_minutes > 0
    /\ HasPrior(last, alert_call)
    /\ SincePrior(last, alert_call) >= Minutes(cooldown_minutes)

\* every record is held under its own (symbol, direction)
OneRecordPerKey ==
    \A k \in DOMAIN last : last[k].symbol = k[1] /\ last[k].direction = k[2]

\* a decide step keeps every key; a key whose record is new or differs is the
\* call's key, on a decision that says to send; a decision says to send when
\* it is SEND or SEND_STRENGTHENED, and then the key's record is the call's
RecordsFollowSends ==
    /\ DOMAIN last \subseteq DOMAIN last'
    /\ \A k \in DOMAIN last' :
          (k \notin DOMAIN last \/ last'[k] # last[k]) =>
              decision'.should_send /\ k = CallKey(alert_call')
    /\ decision'.should_send <=> decision'.action \in {SEND, SEND_STRENGTHENED}
    /\ decision'.should_send =>
          /\ CallKey(alert_call') = <<decision'.symbol, decision'.direction>>
          /\ CallScore(alert_call') = decision'.score
          /\ last'[CallKey(alert_call')] = CallRecord(alert_call')

\* C19: the engine holds one record per (symbol, direction); a key's record
\* changes only on a decision with should_send true (SEND or
\* SEND_STRENGTHENED), after which it holds that decision's score, timestamp
\* and signature; no record is ever deleted.
C19_Records == []OneRecordPerKey /\ [][RecordsFollowSends]_vars

\* a send for one key while another key's record, made earlier, is kept
C19_Witness ==
    /\ decision.should_send
    /\ \E k \in DOMAIN last :
          /\ k # CallKey(alert_call)
          /\ Instant(last[k].timestamp) < Instant(alert_call.now)

\* -------------------------------------------------------- data layer: claims
Abs(n) == IF n >= 0 THEN n ELSE -n

\* the instant a bar is normalized to
At(bar) == Instant(normalize_timestamp(bar.timestamp))

Stored(symbol, timeframe) == Load(cache, symbol, timeframe)

\* a stored bar that fill_missing synthesized: flat, without volume, after a bar
Synthesized(bars, k) ==
    /\ k > 1
    /\ bars[k].volume = 0
    /\ bars[k].open = bars[k - 1].close
    /\ bars[k].close = bars[k - 1].close

\* C6: update_cache is idempotent: from any stored state and for any incoming
\* bars, a second update_cache(symbol, timeframe, incoming) with the same
\* incoming bars leaves exactly the files the first call left.
C6_Idempotent ==
    \A symbol \in DataSymbols, timeframe \in Timeframes, incoming \in Fetches :
        LET once == update_cache(cache, symbol, timeframe, incoming, max_gap)
            twice == update_cache(once.files, symbol, timeframe, incoming, max_gap)
        IN /\ twice.files = once.files
           /\ twice.bar_count = once.bar_count

\* a store that holds a synthesized bar, and that some incoming bars change
C6_Witness ==
    \E symbol \in DataSymbols, timeframe \in Timeframes :
        /\ \E k \in DOMAIN Stored(symbol, timeframe) :
              Synthesized(Stored(symbol, timeframe), k)
        /\ \E incoming \in Fetches :
              update_cache(cache, symbol, timeframe, incoming, max_gap).files # cache

\* C8: after every update_cache call, whatever the calls before it and
\* whatever the incoming bars, the bars stored for each key have unique and
\* strictly ascending timestamps.
C8_StoredAscending ==
    \A key \in DOMAIN cache : StrictlyAscending(Stored(key[1], key[2]))

\* an update_cache whose incoming bars repeated a timestamp, on a store that
\* ends with a filler among at least three bars
C8_Witness ==
    /\ data_out.repeated
    /\ ~data_out.raised
    /\ \E key \in DOMAIN cache :
          /\ Len(Stored(key[1], key[2])) >= 3
          /\ \E k \in DOMAIN Stored(key[1], key[2]) : Synthesized(Stored(key[1], key[2]), k)

\* the last bar of a list that is normalized to an instant
LastAt(bars, instant) ==
    bars[CHOOSE j \in DOMAIN bars :
            /\ At(bars[j]) = instant
            /\ \A later \in DOMAIN bars : later > j => At(bars[later]) # instant]

Instants(bars) == { At(bars[j]) : j \in DOMAIN bars }

\* C7: merge_incremental(existing, incoming) is no longer than existing and
\* incoming together, is strictly ascending by normalized timestamp, holds
\* exactly the timestamps of the two inputs, and at a timestamp that both
\* inputs hold its bar is the incoming one (the last such, timestamp normalized).
C7_Merge ==
    merge.done =>
        /\ Len(merge.result) <= Len(merge.existing) + Len(merge.incoming)
        /\ StrictlyAscending(merge.result)
        /\ \A k \in DOMAIN merge.result :
              merge.result[k].timestamp = normalize_timestamp(merge.result[k].timestamp)
        /\ Instants(merge.result) = Instants(merge.existing) \cup Instants(merge.incoming)
        /\ \A k \in DOMAIN merge.result :
              At(merge.result[k]) \in Instants(merge.incoming) =>
                 merge.result[k] = normalize_bar(LastAt(merge.incoming, At(merge.result[k])))

\* a merge in which an incoming bar, stamped in another zone, replaced an
\* existing bar that differed from it
C7_Witness ==
    /\ merge.done
    /\ \E i \in DOMAIN merge.existing, j \in DOMAIN merge.incoming :
          /\ At(merge.existing[i]) = At(merge.incoming[j])
          /\ merge.existing[i].timestamp # merge.incoming[j].timestamp
          /\ merge.existing[i].close # merge.incoming[j].close
    /\ Len(merge.result) < Len(merge.existing) + Len(merge.incoming)
    /\ Len(merge.result) >= 2

\* the positions of the output that hold the input bars, for a choice P of
\* as many positions as there are input bars: each normalized input bar is
\* there as often as it is in the input
HoldsInput(P) ==
    /\ Cardinality(P) = Len(fill.bars)
    /\ \A j \in DOMAIN fill.bars :
          Cardinality({ k \in P : fill.result[k] = normalize_bar(fill.bars[j]) })
             = Cardinality({ i \in DOMAIN fill.bars :
                               normalize_bar(fill.bars[i]) = normalize_bar(fill.bars[j]) })

\* the output bar at k lies between the input bars nearest to it, flat at the
\* close of the one before it and without volume
FilledFromPrior(P, k) ==
    \E p \in P, q \in P :
        /\ p < k /\ k < q
        /\ \A r \in P : r <= p \/ r >= q
        /\ fill.result[k].volume = 0
        /\ fill.result[k].open = fill.result[p].close
        /\ fill.result[k].high = fill.result[p].close
        /\ fill.result[k].low = fill.result[p].close
        /\ fill.result[k].close = fill.result[p].close
        /\ At(fill.result[p]) < At(fill.result[k])
        /\ At(fill.result[k]) < At(fill.result[q])

\* C9: fill_missing keeps every input bar unchanged in its output (its
\* timestamp normalized), and every bar it synthesizes has volume = 0 and
\* open = high = low = close = the close of the nearest preceding input bar,
\* with a timestamp strictly between the two input bars around it.
C9_FillKeepsReal ==
    fill.done =>
        \E P \in SUBSET DOMAIN fill.result :
            /\ HoldsInput(P)
            /\ \A k \in DOMAIN fill.result : k \notin P => FilledFromPrior(P, k)

\* a repair that synthesized bars between input bars of different closes
C9_Witness ==
    /\ fill.done
    /\ Len(fill.result) >= Len(fill.bars) + 2
    /\ \E k \in DOMAIN fill.result :
          /\ Synthesized(fill.result, k)
          /\ k < Len(fill.result)
          /\ fill.result[k + 1].volume # 0
          /\ fill.result[k + 1].close # fill.result[k].close

\* two input bars, a before b, with no input bar between them
Consecutive(a, b) ==
    /\ At(fill.bars[a]) < At(fill.bars[b])
    /\ \A c \in DOMAIN fill.bars :
          At(fill.bars[c]) <= At(fill.bars[a]) \/ At(fill.bars[c]) >= At(fill.bars[b])

\* the instants of the output bars between two input bars
Between(a, b) ==
    { At(fill.result[k]) : k \in { i \in DOMAIN fill.result :
                                     /\ At(fill.result[i]) > At(fill.bars[a])
                                     /\ At(fill.result[i]) < At(fill.bars[b]) } }

\* the instants divide the span from a to b evenly, each to the nearest tick
EvenlySpaced(a, b) ==
    LET delta == At(fill.bars[b]) - At(fill.bars[a])
        n == Cardinality(Between(a, b))
    IN \A f \in Between(a, b) :
          LET j == Cardinality({ g \in Between(a, b) : g <= f })
          IN 2 * Abs((n + 1) * (f - At(fill.bars[a])) - j * delta) <= n + 1

\* the time delta of two input bars in whole minutes
WholeMinutes(a, b) == (At(fill.bars[b]) - At(fill.bars[a])) \div TicksPerMinute

C11_AsStated ==
    fill.done =>
        \A a \in DOMAIN fill.bars, b \in DOMAIN fill.bars :
            ( /\ Consecutive(a, b)
              /\ \/ At(fill.bars[b]) - At(fill.bars[a]) > Minutes(fill.max_gap)
                 \/ At(fill.bars[b]) - At(fill.bars[a]) <= Minutes(fill.interval) )
            => Between(a, b) = {}

\* ------------------------------------------------------------ runtime: claims
\* the fetcher of the latest cycle raised or returned no bars
FetchFailed == recovered.fetched.raises \/ recovered.fetched.bars = <<>>

\* the latest cycle ended in an exception of the interpreter
InterpreterFailed == cycle.error \in {"provider", "confidence out of range", "KeyError"}

\* C12 as stated: a run_cycle whose fetcher raises or returns an empty list
\* completes and returns a result tagged data_source = "cache", whatever the
\* store holds (a cycle that the interpreter's own failure ends is left aside).
C12_AsStated ==
    (cycles > 0 /\ FetchFailed /\ ~InterpreterFailed) =>
        (cycle.completed /\ cycle.data_source = "cache")

\* C13: fetch_with_fallback returns source = "provider" with the fetched bars
\* exactly when the fetcher returns a non-empty list without raising; when it
\* raises or returns an empty list, source = "cache" with the bars last saved
\* for the key (none if there are none), and the failure goes no further.
C13_Fallback ==
    [][cycles' = cycles + 1 =>
         IF ~recovered'.fetched.raises /\ recovered'.fetched.bars # <<>>
         THEN /\ recovered'.source = "provider"
              /\ recovered'.bars = recovered'.fetched.bars
         ELSE /\ recovered'.source = "cache"
              /\ recovered'.bars = Stored(recovered'.symbol, recovered'.timeframe)
              /\ cycle'.error \in {"", "requires bars"} \/ InterpreterFailed']_vars

\* a cycle whose fetcher raised, run on the bars saved before it
C13_Witness ==
    /\ recovered.fetched.raises
    /\ recovered.source = "cache"
    /\ Len(recovered.bars) >= 2
    /\ cycle.completed
    /\ cycle.data_source = "cache"
\* ----------------------------------------------------------- backtest: claims
\* the bar indices of the signals generate_signals returned
SignalIndices == [i \in DOMAIN backtest.signals |-> backtest.signals[i].index]

\* C23 as stated: for one symbol and the same per-bar summaries and results,
\* with the live cooldown equal to cooldown_bars bar intervals and the same
\* strengthen delta, the bar indices at which generate_signals emits a signal
\* are exactly those at which AlertEngine.decide returns SEND or
\* SEND_STRENGTHENED.
C23_AsStated == backtest.done => SignalIndices = backtest.live

\* C24: run returns a report whose precision is in [0, 1] and whose
\* signal_count is the length of the signal list and of the trade-result
\* list; with no signal the report has signal_count 0, every numeric field 0
\* and avg_time_to_recovery_bars None.
C24_Report ==
    backtest.done =>
        /\ backtest.report.signal_count = Len(backtest.signals)
        /\ Len(backtest.results) = Len(backtest.signals)
        /\ backtest.report.precision.den > 0
        /\ 0 <= backtest.report.precision.num
        /\ backtest.report.precision.num <= backtest.report.precision.den
        /\ backtest.signals = <<>> =>
              /\ backtest.report.signal_count = 0
              /\ backtest.report.precision.num = 0
              /\ backtest.report.avg_rebound_pct.num = 0
              /\ backtest.report.max_drawdown_pct = 0
              /\ backtest.report.avg_signal_duration_bars.num = 0
              /\ backtest.report.signal_to_noise_ratio.num = 0
              /\ backtest.report.avg_time_to_recovery_bars = None

\* a run with signals of which one reached the precision target and one did not
C24_Witness ==
    /\ backtest.done
    /\ Len(backtest.signals) >= 2
    /\ 0 < backtest.report.precision.num
    /\ backtest.report.precision.num < backtest.report.precision.den
\* --------------------------------------------------------- divergence: claims
\* the 0-based indices of the points of a series strictly lower (higher) than
\* each of the w points before and the w points after
LowPivots(values, w) ==
    { i \in w..(Len(values) - w - 1) :
        \A d \in 1..w : values[i + 1] < values[i + 1 - d] /\ values[i + 1] < values[i + 1 + d] }
HighPivots(values, w) ==
    { i \in w..(Len(values) - w - 1) :
        \A d \in 1..w : values[i + 1] > values[i + 1 - d] /\ values[i + 1] > values[i + 1 + d] }

Latest(indices) == CHOOSE i \in indices : \A j \in indices : j <= i

\* the two most recent low pivots of the price show a lower price low and a
\* higher indicator low
BullishApplies(prices, indicators, w) ==
    LET lows == LowPivots(prices, w)
        b == Latest(lows)
        a == Latest(lows \ {b})
    IN /\ Cardinality(lows) >= 2
       /\ prices[b + 1] < prices[a + 1]
       /\ indicators[b + 1] > indicators[a + 1]

\* the two most recent high pivots of the price show a higher price high and
\* a lower indicator high
BearishApplies(prices, indicators, w) ==
    LET highs == HighPivots(prices, w)
        b == Latest(highs)
        a == Latest(highs \ {b})
    IN /\ Cardinality(highs) >= 2
       /\ prices[b + 1] > prices[a + 1]
       /\ indicators[b + 1] < indicators[a + 1]

\* C25: detect with pivot window w on series of equal length returns
\* found = False, none, on fewer than 2w+3 points; otherwise bullish iff the
\* two latest price low pivots show a lower price low and a higher indicator
\* low, else bearish iff the two latest price high pivots show a higher price
\* high and a lower indicator high, else none, bullish winning when both
\* apply; prices [10,8,9,7,8,9] with indicator [100,80,85,90,91,92] and w = 1
\* give found = True, bullish.
C25_Detect ==
    detect.done =>
        /\ detect.signal.kind =
              IF Len(detect.prices) < 2 * detect.w + 3 THEN DIVERGENCE_NONE
              ELSE IF BullishApplies(detect.prices, detect.indicators, detect.w) THEN BULLISH
              ELSE IF BearishApplies(detect.prices, detect.indicators, detect.w) THEN BEARISH
              ELSE DIVERGENCE_NONE
        /\ detect.signal.found <=> detect.signal.kind # DIVERGENCE_NONE
        /\ (/\ detect.prices = <<10, 8, 9, 7, 8, 9>>
            /\ detect.indicators = <<100, 80, 85, 90, 91, 92>>
            /\ detect.w = 1)
              => detect.signal.found /\ detect.signal.kind = BULLISH

\* a bullish signal on a series on which the bearish test applies as well
C25_Witness ==
    /\ detect.done
    /\ detect.signal.found
    /\ detect.signal.kind = BULLISH
    /\ BearishApplies(detect.prices, detect.indicators, detect.w)
\* --------------------------------------------------- indicator engine: claims
\* C26: run returns one result per configured indicator, in order, and a
\* summary with total_score the sum of the scores, counts that partition the
\* results, strongest_signal bullish if bullish > bearish, bearish if
\* reversed, neutral on ties, should_alert <=> total_score >= score_threshold,
\* s_tier_hits the number of s-tier results with score > 0, and
\* should_call_ai <=> (total_score >= ai_call_threshold or s_tier_hits >=
\* min_s_hits_for_ai).
C26_Run ==
    (engine.done /\ ~engine.raised) =>
        LET results == engine.results
            summary == engine.summary
            with(signal) == Cardinality({i \in DOMAIN results : results[i].signal = signal})
        IN /\ Len(results) = Len(Indicators)
           /\ \A i \in DOMAIN results :
                 results[i].indicator = Indicators[i].name /\ results[i] = engine.plugged[i]
           /\ summary.total_score = SumScores(results)
           /\ summary.bullish_count = with(BULLISH)
           /\ summary.bearish_count = with(BEARISH)
           /\ summary.neutral_count = with(NEUTRAL)
           /\ summary.bullish_count + summary.bearish_count + summary.neutral_count
                 = Len(results)
           /\ summary.strongest_signal =
                 IF summary.bullish_count > summary.bearish_count THEN BULLISH
                 ELSE IF summary.bearish_count > summary.bullish_count THEN BEARISH
                 ELSE NEUTRAL
           /\ summary.should_alert <=> summary.total_score >= EngineConfig.score_threshold
           /\ summary.s_tier_hits =
                 Cardinality({i \in DOMAIN results :
                                 /\ results[i].indicator \in EngineConfig.s_tier_names
                                 /\ results[i].score > 0})
           /\ summary.should_call_ai <=>
                 \/ summary.total_score >= EngineConfig.ai_call_threshold
                 \/ summary.s_tier_hits >= EngineConfig.min_s_hits_for_ai

\* a tie of a bullish and a bearish result, above the alert threshold
C26_Witness ==
    /\ engine.done /\ ~engine.raised
    /\ engine.summary.bullish_count = 1
    /\ engine.summary.bearish_count = 1
    /\ engine.summary.strongest_signal = NEUTRAL
    /\ engine.summary.should_alert
    /\ engine.summary.s_tier_hits = 1

\* what the claim asks of a result: neutral exactly when the score is 0, and
\* otherwise a score above 0 and up to the weight
WellFormed(ind, result) ==
    /\ result.signal = NEUTRAL <=> result.score = 0
    /\ result.signal # NEUTRAL => (0 < result.score /\ result.score <= ind.weight)

\* C27 as stated: every result evaluate returns has signal neutral <=>
\* score = 0 and otherwise 0 < score <= weight; a plug-in result that
\* violates this, one naming another indicator, or a call with no bars makes
\* evaluate raise.
C27_AsStated ==
    engine.done =>
        /\ ~engine.raised =>
              \A i \in DOMAIN engine.results : WellFormed(Indicators[i], engine.results[i])
        /\ (\/ ~engine.bars_given
            \/ \E i \in DOMAIN engine.plugged :
                  \/ engine.plugged[i].indicator # Indicators[i].name
                  \/ ~WellFormed(Indicators[i], engine.plugged[i]))
              => engine.raised
\* ------------------------------------------------------ notification: claims
\* C28 as stated: in every run_cycle the notifier receives exactly one
\* message when the alert decision is SEND or SEND_STRENGTHENED and none
\* otherwise, so that over any sequence of cycles the number of notifications
\* for a symbol equals the number of times the AlertEngine recorded a send
\* for it; when the interpreter was called the message carries its summary.
C28_AsStated ==
    /\ \A symbol \in DataSymbols :
          Get(notifier.received, symbol) = Get(notifier.recorded, symbol)
    /\ cycle.completed =>
          (notifier.sent <=> cycle.action \in {SEND, SEND_STRENGTHENED})
    /\ (notifier.sent /\ cycle.ai_called) =>
          /\ notifier.message.ai_line
          /\ notifier.message.ai_summary = ai.result[1].summary

\* C29: with delivery wrapped in SafeNotifier a failing transport never
\* raises out of send, and a cycle whose delivery fails ends with the same
\* AlertEngine records, limiter counters, stored bars and metrics as the same
\* cycle with a successful delivery.
C29_SafeNotifier ==
    (notifier.sent /\ notifier.failed) =>
        /\ cycle.completed
        /\ Left(last, sym, global, cache, metrics) = notifier.delivering

\* a failed delivery of an alert the interpreter was called for
C29_Witness ==
    /\ notifier.sent /\ notifier.failed
    /\ cycle.ai_called
    /\ metrics.alerts_sent = 1
    /\ last # EmptyMap
\* --------------------------------------------------------- DataCache: claims
\* two bars at the same instant with the same open, high, low, close and
\* volume
SameBar(got, given) ==
    /\ At(got) = At(given)
    /\ <<got.open, got.high, got.low, got.close, got.volume>>
          = <<given.open, given.high, given.low, given.close, given.volume>>

Occurrences(bars, given) == Cardinality({j \in DOMAIN bars : SameBar(bars[j], given)})

\* C30: save(symbol, timeframe, bars) fully replaces the stored state of the
\* key: a following load of the key returns exactly the saved bars in
\* ascending timestamp order with the same timestamps and OHLCV values,
\* whatever was stored before, and the bar_count of the metadata is the number
\* of bars loaded; load of a key never saved returns an empty sequence.
C30_SaveLoad ==
    cache_call.op = "load" =>
        IF cache_call.key \in DOMAIN cache_call.latest
        THEN LET saved == cache_call.latest[cache_call.key]
                 loaded == cache_call.loaded
             IN /\ Len(loaded) = Len(saved)
                /\ \A i \in DOMAIN saved :
                      Occurrences(loaded, saved[i]) = Occurrences(saved, saved[i])
                /\ \A i \in 1..(Len(loaded) - 1) :
                      Instant(loaded[i].timestamp) <= Instant(loaded[i + 1].timestamp)
                /\ \A i \in DOMAIN loaded :
                      loaded[i].timestamp.aware /\ loaded[i].timestamp.off = 0
                /\ cache_call.counts[cache_call.key] = Len(loaded)
        ELSE cache_call.loaded = <<>>

\* a load after two bars given latest first, on the clock in Seoul, were
\* saved over a stored bar
C30_Witness ==
    /\ cache_call.op = "load"
    /\ cache_call.key \in DOMAIN cache_call.latest
    /\ Len(cache_call.loaded) = 2
    /\ LET saved == cache_call.latest[cache_call.key]
       IN /\ Instant(saved[1].timestamp) > Instant(saved[2].timestamp)
          /\ saved[1].timestamp.off # 0
          /\ cache_call.loaded[1] # saved[2]
\* ------------------------------------------------- backtest: signal claims
\* the signals of a list at bar indices below k, and those of one direction
Before(signals, k) == SelectSeq(signals, LAMBDA sig : sig.index < k)
Towards(signals, direction) == SelectSeq(signals, LAMBDA sig : sig.direction = direction)

\* C31: generate_signals has no look-ahead: the signals with index <= k are
\* those generate_signals gives on bars[0..k] alone, so two bar sequences that
\* agree on bars[0..k] produce the same signals with index <= k; the indices
\* of the signals are strictly increasing and all >= warmup_bars (at most one
\* signal per bar), and there is none when len(bars) <= warmup_bars.
C31_NoLookAhead ==
    backtest.done =>
        LET signals == backtest.signals
        IN /\ \A k \in DOMAIN backtest.bars :
                 backtest.prefixes[k] = Before(signals, k)
           /\ \A i \in DOMAIN signals :
                 /\ signals[i].index >= backtest.config.warmup_bars
                 /\ signals[i].index < Len(backtest.bars)
                 /\ i > 1 => signals[i - 1].index < signals[i].index
           /\ Len(backtest.bars) <= backtest.config.warmup_bars => signals = <<>>

\* signals on the second and the third of three bars after a warmup of one,
\* the third bar making no difference to the second's signal
C31_Witness ==
    /\ backtest.done
    /\ backtest.config.warmup_bars = 1
    /\ Len(backtest.bars) = 3
    /\ Len(backtest.signals) = 2
    /\ Len(backtest.prefixes[2]) = 1
    /\ backtest.bars[3].results # backtest.bars[2].results

\* C32: of two consecutive signals of the same direction fewer than
\* cooldown_bars bars apart the later has score >= the earlier score +
\* strengthen_delta; cooldown and last score are tracked per direction, so
\* the signals of a direction are those it has with the evaluations of the
\* other direction giving no signal.
C32_PerDirection ==
    backtest.done =>
        \A d \in {BULLISH, BEARISH} :
            LET mine == Towards(backtest.signals, d)
            IN /\ \A i \in 2..Len(mine) :
                     mine[i].index - mine[i - 1].index < backtest.config.cooldown_bars
                        => mine[i].score
                              >= mine[i - 1].score + backtest.config.strengthen_delta
               /\ mine = backtest.alone[d]

\* a strengthened bullish signal inside the cooldown of the first, and a
\* bearish signal inside the cooldown of both
C32_Witness ==
    /\ backtest.done
    /\ backtest.config.cooldown_bars = 2
    /\ backtest.config.strengthen_delta = 1
    /\ Len(backtest.signals) = 3
    /\ backtest.signals[1].direction = BULLISH
    /\ backtest.signals[2].direction = BULLISH
    /\ backtest.signals[3].direction = BEARISH
    /\ backtest.signals[2].score > backtest.signals[1].score
\* the 1-based offsets from the signal bar that evaluate_signal may look at
Ahead(signal) ==
    { o \in 1..backtest.config.lookahead_bars : signal.index + 1 + o <= Len(backtest.bars) }
FutureBar(signal, o) == backtest.bars[signal.index + 1 + o]

\* C33: evaluate_signal takes the close at the signal bar as entry and looks
\* at most lookahead_bars bars ahead: time_to_recovery_bars is the 1-based
\* offset of the first future bar whose high >= entry, or None if the window
\* has none; a signal on the last bar yields zero drawdown and rebound, hit =
\* False and None recovery; with a positive entry and a non-negative target,
\* hit_precision_target implies time_to_recovery_bars is not None.
C33_EvaluateSignal ==
    backtest.done =>
        \A i \in DOMAIN backtest.results :
            LET result == backtest.results[i]
                signal == backtest.signals[i]
                entry == backtest.bars[signal.index + 1].close
                recovering == { o \in Ahead(signal) : FutureBar(signal, o).high >= entry }
            IN /\ result.signal = signal
               /\ result.entry_price = entry
               /\ IF recovering = {} THEN result.time_to_recovery_bars = None
                  ELSE /\ result.time_to_recovery_bars \in recovering
                       /\ \A o \in recovering : result.time_to_recovery_bars <= o
               /\ Ahead(signal) # {} =>
                     /\ \E o \in Ahead(signal) :
                           result.max_drawdown_pct = Pct(FutureBar(signal, o).low, entry)
                     /\ \A o \in Ahead(signal) :
                           result.max_drawdown_pct <= Pct(FutureBar(signal, o).low, entry)
                     /\ \E o \in Ahead(signal) :
                           result.rebound_pct = Pct(FutureBar(signal, o).high, entry)
                     /\ \A o \in Ahead(signal) :
                           result.rebound_pct >= Pct(FutureBar(signal, o).high, entry)
               /\ signal.index = Len(backtest.bars) - 1 =>
                     /\ result.max_drawdown_pct = 0
                     /\ result.rebound_pct = 0
                     /\ ~result.hit_precision_target
                     /\ result.time_to_recovery_bars = None
               /\ (/\ entry > 0
                   /\ backtest.config.precision_target_pct >= 0
                   /\ result.hit_precision_target)
                     => result.time_to_recovery_bars # None

\* a signal that recovers and hits the target on the second bar after it,
\* and a signal on the last bar
C33_Witness ==
    /\ backtest.done
    /\ Len(backtest.results) >= 2
    /\ backtest.results[1].hit_precision_target
    /\ backtest.results[1].time_to_recovery_bars = 2
    /\ backtest.results[1].max_drawdown_pct < 0
    /\ backtest.signals[Len(backtest.signals)].index = Len(backtest.bars) - 1
\* ------------------------------------------------- update_cache: timeframes
\* C34: update_cache with a timeframe whose suffix is not m, h or d fails
\* with an error and leaves the stored bars of every key unchanged.
C34_Unsupported ==
    [][data_out'.unsupported =>
          /\ data_out'.raised
          /\ cache' = cache
          /\ \A symbol \in DataSymbols, timeframe \in UpdatedTimeframes :
                Load(cache', symbol, timeframe) = Load(cache, symbol, timeframe)]_vars

\* update_cache("1w") given bars, on a store that holds bars
C34_Witness ==
    /\ data_out.unsupported
    /\ data_out.raised
    /\ data_out.repeated
    /\ Len(Load(cache, "AAPL", [n |-> 1, suffix |-> "m"])) >= 2
    /\ Load(cache, "AAPL", Weekly) = <<>>
\* ------------------------------------------- alert engine: persisting signals
\* C35: a persisting unchanged signal is notified once: for one symbol
\* evaluated again and again with the same alert-worthy summary and results,
\* strengthened_delta > 0 and non-decreasing now, the first decide alone
\* returns should_send true; each later one returns SUPPRESS_COOLDOWN inside
\* the cooldown window of the first and SUPPRESS_DUPLICATE after it.
C35_NotifiedOnce ==
    (/\ alert_call.persisting
     /\ AlertWorthy(alert_call.results)
     /\ strengthened_delta > 0) =>
        IF alert_call.first
        THEN decision.action = SEND /\ decision.should_send
        ELSE /\ ~decision.should_send
             /\ decision.action =
                   IF Elapsed(CallStamp(alert_call), notified[CallKey(alert_call)].at)
                         < Minutes(cooldown_minutes)
                   THEN SUPPRESS_COOLDOWN
                   ELSE SUPPRESS_DUPLICATE

\* the signal evaluated again after the cooldown of a minute has run out
C35_Witness ==
    /\ alert_call.persisting /\ ~alert_call.first
    /\ AlertWorthy(alert_call.results)
    /\ strengthened_delta > 0
    /\ cooldown_minutes > 0
    /\ decision.action = SUPPRESS_DUPLICATE
    /\ Elapsed(CallStamp(alert_call), notified[CallKey(alert_call)].at)
          >= Minutes(cooldown_minutes)

\* the records with the record of `key` alone
OwnRecord(map, key) == [k \in DOMAIN map \cap {key} |-> map[k]]

\* C36: AlertEngine keys are independent: a decide call for (symbol,
\* direction) never creates or changes the record of another key, and its
\* outcome is the one it has with that key's record alone, so evaluations of
\* other symbols or of the opposite direction never change the decisions for
\* a key.
C36_KeysIndependent ==
    [][alert_call' # alert_call =>
          LET key == CallKey(alert_call')
              alone == Decide(OwnRecord(last, key), cooldown_minutes, strengthened_delta,
                              alert_call'.symbol, Summarize(alert_call'.results),
                              alert_call'.results, alert_call'.now)
          IN /\ \A k \in DOMAIN last : k # key => (k \in DOMAIN last' /\ last'[k] = last[k])
             /\ \A k \in DOMAIN last' : k \notin DOMAIN last => k = key
             /\ decision' = alone.decision
             /\ OwnRecord(last', key) = alone.last]_vars

\* a send for a key beside the records of the opposite direction and of the
\* other symbol, which had a send suppressed
C36_Witness ==
    /\ Cardinality(DOMAIN last) >= 3
    /\ decision.should_send
    /\ ~alert_call.fresh
    /\ \E k \in DOMAIN last :
          /\ k[1] = alert_call.symbol
          /\ k # CallKey(alert_call)
          /\ last[k].timestamp = CallStamp(alert_call)
\* ------------------------------------------------- AIUsageLimiter: counters
\* AIUsageLimiter(per_symbol, global_daily) under allow and consume calls
LimiterInit ==
    /\ cooldown_minutes = 0
    /\ strengthened_delta = 0
    /\ last = EmptyMap
    /\ alert_call = NoCall
    /\ decision = NoDecision
    /\ notified = EmptyMap
    /\ per_symbol \in {1, MaxPerSymbol}
    /\ global_daily \in {1, MaxGlobalDaily}
    /\ sym = EmptyMap
    /\ global = EmptyMap
    /\ ai_call = NoAICall
    /\ ai = AIInvocation(FALSE, "", <<>>)
    /\ generated = EmptyMap
    /\ backtest = NoBacktest
    /\ detect = NoDetect
    /\ engine = NoEngineRun
    /\ cache_call = NoCacheCall
    /\ limiter_call = NoLimiterCall
    /\ cache = EmptyMap
    /\ data_out = NoDataOut
    /\ max_gap = 1
    /\ merge = NoMerge
    /\ fill = NoFill
    /\ cycles = 0
    /\ recovered = NoRecovery
    /\ cycle = NoCycle
    /\ messages = 0
    /\ notifier = NoNotifier
    /\ metrics = NoMetrics

SpecLimiter == LimiterInit /\ [][LimiterNext]_vars

\* C37: in every reachable state of AIUsageLimiter the global counter of each
\* day is the sum over the symbols of the counters of (symbol, day), no
\* counter ever decreases, and allow changes no counter.
C37_Counters ==
    /\ [](/\ \A k \in DOMAIN sym : k[2] \in Days
          /\ DOMAIN global \subseteq Days
          /\ \A day \in Days : Get(global, day) = DayTotal(sym, day))
    /\ [][/\ \A k \in DOMAIN sym : k \in DOMAIN sym' /\ sym'[k] >= sym[k]
          /\ \A d \in DOMAIN global : d \in DOMAIN global' /\ global'[d] >= global[d]
          /\ limiter_call'.op = "allow" => (sym' = sym /\ global' = global)]_vars

\* allow denied on a day on which both symbols have been counted
C37_Witness ==
    /\ limiter_call.op = "allow" /\ ~limiter_call.allowed
    /\ limiter_call.reason = "global daily limit"
    /\ Get(sym, <<"AAPL", limiter_call.day>>) >= 1
    /\ Get(sym, <<"MSFT", limiter_call.day>>) >= 1
    /\ Get(global, limiter_call.day) >= 2
    /\ \E d \in DOMAIN global : d # limiter_call.day
\* ------------------------------------------------- run cycle: the metrics
\* C38: after any sequence of run_cycle calls, cycles_total =
\* provider_source_count + cache_source_count = the number of completed cycles
\* (it starts at 0 and grows by one in the cycles that return a result, and
\* in no other), and ai_calls <= alerts_sent <= cycles_total.
C38_Metrics ==
    /\ [](/\ metrics.cycles_total
               = metrics.provider_source_count + metrics.cache_source_count
          /\ metrics.ai_calls <= metrics.alerts_sent
          /\ metrics.alerts_sent <= metrics.cycles_total
          /\ metrics.cycles_total <= cycles
          /\ cycles = 0 => metrics.cycles_total = 0)
    /\ [][cycles' = cycles + 1 =>
             metrics'.cycles_total
                = metrics.cycles_total + (IF cycle'.completed THEN 1 ELSE 0)]_vars

\* a cycle on the stored bars that completed without an alert, after one on
\* the provider's bars that sent an alert and called the interpreter
C38_Witness ==
    /\ cycles = 2
    /\ cycle.completed
    /\ cycle.data_source = "cache"
    /\ metrics.cycles_total = 2
    /\ metrics.provider_source_count = 1
    /\ metrics.cache_source_count = 1
    /\ metrics.alerts_sent = 1
    /\ metrics.ai_calls = 1
\* ------------------------------------------- run cycle: falling back
\* the key of the latest cycle and the bars stored for it
CycleKey(r) == <<r.symbol, r.timeframe>>
StoredFor(files, r) == Load(files, r.symbol, r.timeframe)

\* the cycle of this step fell back to the cache and left the stored bars
\* of its key as they were, and gave them to the indicator engine
FallbackKeepsStore ==
    /\ StoredFor(cache', recovered') = StoredFor(cache, recovered')
    /\ recovered'.cached_bars = StoredFor(cache, recovered')

\* C39 as stated: a cycle that falls back to the cache (fetch failed or
\* empty) leaves the stored bars of the key as they were after the previous
\* update_cache of that key, and the indicator engine evaluates those bars.
C39_AsStated ==
    [][(cycles' = cycles + 1 /\ recovered'.source = "cache") => FallbackKeepsStore]_vars

\* C39, amended: so it is when the cycle's max_gap_minutes is not larger than
\* that of the previous update_cache of the key (or the key has no file).
C39_Fallback ==
    [][(/\ cycles' = cycles + 1
        /\ recovered'.source = "cache"
        /\ CycleKey(recovered') \in DOMAIN recovered.stored_with =>
              max_gap' <= recovered.stored_with[CycleKey(recovered')])
          => FallbackKeepsStore]_vars

\* a fallback on two stored bars with a gap that was left open, completed
C39_Witness ==
    /\ recovered.source = "cache"
    /\ recovered.fetched.raises
    /\ cycle.completed
    /\ max_gap = 1
    /\ Len(recovered.bars) = 2
    /\ recovered.cached_bars = recovered.bars
    /\ Stored(recovered.symbol, recovered.timeframe) = recovered.bars
    /\ At(recovered.bars[2]) - At(recovered.bars[1]) = Minutes(2)
====
